---- MODULE Spec2Model ----
(***************************************************************************)
(* A model of clc, a command line calculator: main reads a program,        *)
(* tokenize (lexer.rs) turns its bytes into tokens, parse (parser.rs)      *)
(* splits the tokens into lines, converts each line to postfix             *)
(* (convert_expr_posfix), evaluates it on a value stack                    *)
(* (evaluate_expr_postfix) over the function table of functions.rs and the *)
(* arithmetic of number.rs, and returns the last line's value.             *)
(*                                                                         *)
(* A Rust u64 is a sequence of 8 bytes, least significant first, so that   *)
(* 64-bit wrap-around, masks and overflow are computed exactly.  A Rust    *)
(* f64 is a fixed-point number q / FScale, or NaN, or an infinity; a float *)
(* the fixed-point form cannot hold exactly has class "unmodelled".        *)
(***************************************************************************)
EXTENDS Integers, Sequences, FiniteSets, TLC

\* ------------------------------------------------------------------------
\* Bound of the model
\* ------------------------------------------------------------------------

\* Longest program drawn from Alphabet (InfixPrograms and FixedPrograms are fixed).
MaxLen == 3

\* ------------------------------------------------------------------------
\* u64: 8 bytes, little-endian
\* ------------------------------------------------------------------------

u64_zero == <<0, 0, 0, 0, 0, 0, 0, 0>>

u64_max == <<255, 255, 255, 255, 255, 255, 255, 255>>

RECURSIVE u64_limbs(_, _)
u64_limbs(n, k) ==
  IF k = 0 THEN <<>> ELSE <<n % 256>> \o u64_limbs(n \div 256, k - 1)

\* The u64 of a small natural number (below 2^31).
u64_from(n) == u64_limbs(n, 8)

\* Whether the u64 is below 2^24, and then its value as a natural number.
u64_is_small(a) == \A k \in 4..8 : a[k] = 0

u64_small(a) == a[1] + 256 * a[2] + 65536 * a[3]

\* One byte of a sum put before the bytes above it.
u64_cons(s, r) == [bits |-> <<s % 256>> \o r.bits, carry |-> r.carry]

RECURSIVE u64_add_from(_, _, _, _)
u64_add_from(a, b, k, c) ==
  IF k > 8 THEN [bits |-> <<>>, carry |-> c]
  ELSE u64_cons(a[k] + b[k] + c,
                u64_add_from(a, b, k + 1, (a[k] + b[k] + c) \div 256))

u64_not(a) == [k \in 1..8 |-> 255 - a[k]]

\* a + b, a - b, a * b modulo 2^64, with Rust's overflow condition.
u64_carry_set(r) == [bits |-> r.bits, overflow |-> r.carry = 1]

u64_carry_clear(r) == [bits |-> r.bits, overflow |-> r.carry = 0]

u64_add(a, b) == u64_carry_set(u64_add_from(a, b, 1, 0))

u64_sub(a, b) == u64_carry_clear(u64_add_from(a, u64_not(b), 1, 1))

RECURSIVE u64_mul_col(_, _, _, _)
u64_mul_col(a, b, k, i) ==
  IF i > 8 THEN 0
  ELSE (IF (k + 1 - i) \in 1..8 THEN a[i] * b[k + 1 - i] ELSE 0)
       + u64_mul_col(a, b, k, i + 1)

RECURSIVE u64_mul_from(_, _, _, _)
u64_mul_cons(s, a, b, k) == <<s % 256>> \o u64_mul_from(a, b, k + 1, s \div 256)

u64_mul_from(a, b, k, c) ==
  IF k > 16 THEN <<>> ELSE u64_mul_cons(u64_mul_col(a, b, k, 1) + c, a, b, k)

u64_mul_split(p) ==
  [bits |-> SubSeq(p, 1, 8), overflow |-> \E k \in 9..16 : p[k] # 0]

u64_mul(a, b) == u64_mul_split(u64_mul_from(a, b, 1, 0))

u64_wrapping_neg(a) == u64_sub(u64_zero, a).bits

RECURSIVE u64_cmp_from(_, _, _)
u64_cmp_from(a, b, k) ==
  IF k = 0 THEN 0
  ELSE IF a[k] < b[k] THEN -1
  ELSE IF a[k] > b[k] THEN 1
  ELSE u64_cmp_from(a, b, k - 1)

\* -1, 0, 1 as a < b, a = b, a > b (unsigned).
u64_cmp(a, b) == u64_cmp_from(a, b, 8)

pow2 == <<1, 2, 4, 8, 16, 32, 64, 128>>

u64_shl1(a, c) == u64_add_from(a, a, 1, c).bits

\* The remainder shifted one bit up (s, with its carry) takes b off when it can.
u64_div_sub(s, q, b) ==
  IF s.carry = 1 \/ u64_cmp(s.bits, b) >= 0
  THEN [q |-> u64_shl1(q, 1), r |-> u64_sub(s.bits, b).bits]
  ELSE [q |-> u64_shl1(q, 0), r |-> s.bits]

u64_div_step(p, bit, b) ==
  IF p.r = u64_zero /\ bit = 0
  THEN [q |-> u64_shl1(p.q, 0), r |-> u64_zero]
  ELSE u64_div_sub(u64_add_from(p.r, p.r, 1, bit), p.q, b)

\* The bits 7..t of the byte x of the dividend, taken into the state p.
RECURSIVE u64_div_bits(_, _, _, _)
u64_div_bits(p, x, b, t) ==
  IF t = 8 THEN p
  ELSE u64_div_step(u64_div_bits(p, x, b, t + 1), (x \div pow2[t + 1]) % 2, b)

u64_div_byte(p, x, b) ==
  IF p.r = u64_zero /\ x = 0
  THEN [q |-> <<0>> \o SubSeq(p.q, 1, 7), r |-> u64_zero]
  ELSE u64_div_bits(p, x, b, 0)

RECURSIVE u64_divrem_from(_, _, _)
u64_divrem_from(a, b, k) ==
  IF k = 9 THEN [q |-> u64_zero, r |-> u64_zero]
  ELSE u64_div_byte(u64_divrem_from(a, b, k + 1), a[k], b)

\* Quotient and remainder of a by b # 0 (shift and subtract, highest bit first).
u64_divrem(a, b) == u64_divrem_from(a, b, 1)

bit_op(op, bx, by) ==
  CASE op = "&" -> bx * by
    [] op = "|" -> IF bx + by > 0 THEN 1 ELSE 0
    [] op = "^" -> (bx + by) % 2

RECURSIVE byte_bitop(_, _, _, _)
byte_bitop(op, x, y, n) ==
  IF n = 0 THEN 0
  ELSE bit_op(op, x % 2, y % 2) + 2 * byte_bitop(op, x \div 2, y \div 2, n - 1)

u64_bitop(op, a, b) == [k \in 1..8 |-> byte_bitop(op, a[k], b[k], 8)]

u64_shr1(a) ==
  [k \in 1..8 |-> (a[k] \div 2) + (IF k < 8 THEN (a[k + 1] % 2) * 128 ELSE 0)]

RECURSIVE u64_shl_bits(_, _)
u64_shl_bits(a, n) == IF n = 0 THEN a ELSE u64_shl1(u64_shl_bits(a, n - 1), 0)

RECURSIVE u64_shr_bits(_, _)
u64_shr_bits(a, n) == IF n = 0 THEN a ELSE u64_shr1(u64_shr_bits(a, n - 1))

\* a << n and a >> n for n in 0..63: whole bytes first, then up to 7 bits.
u64_shl(a, n) ==
  u64_shl_bits([k \in 1..8 |-> IF k > n \div 8 THEN a[k - (n \div 8)] ELSE 0], n % 8)

u64_shr(a, n) ==
  u64_shr_bits([k \in 1..8 |-> IF k + (n \div 8) <= 8 THEN a[k + (n \div 8)] ELSE 0], n % 8)

\* A shift amount of 64 or more overflows; a release build shifts by amount & 63.
u64_shift_overflow(b) == b[1] >= 64 \/ \E k \in 2..8 : b[k] # 0

u64_shift_amount(b) == b[1] % 64

\* ------------------------------------------------------------------------
\* Width and Number (number.rs)
\* ------------------------------------------------------------------------

Width == {"U64", "U32", "U16", "U8", "I64", "I32", "I16", "I8"}

width_bytes(w) ==
  CASE w \in {"U64", "I64"} -> 8
    [] w \in {"U32", "I32"} -> 4
    [] w \in {"U16", "I16"} -> 2
    [] w \in {"U8", "I8"}   -> 1

width_signed(w) == w \in {"I64", "I32", "I16", "I8"}

as_mask(w) == [k \in 1..8 |-> IF k <= width_bytes(w) THEN 255 ELSE 0]

mask(w, value) == [k \in 1..8 |-> IF k <= width_bytes(w) THEN value[k] ELSE 0]

\* Number::Integer(bits, width) and Number::Float(f64) as one record shape.
\* cls is "int" for an integer, and for a float "fin" (the value q / FScale),
\* "nan", "pinf", "ninf", or "unmodelled" (a float outside the fixed-point form;
\* whatever is computed from one is unmodelled too).
FScale == 1000

\* new_integer storing the payload as it is given.
new_integer_unmasked(v, w) ==
  [kind |-> "Integer", bits |-> v, width |-> w, cls |-> "int", q |-> 0]

new_integer(v, w) ==
  [kind |-> "Integer", bits |-> mask(w, v), width |-> w, cls |-> "int", q |-> 0]

float_of(cls, q) ==
  [kind |-> "Float", bits |-> u64_zero, width |-> "U64", cls |-> cls, q |-> q]

f64_nan == float_of("nan", 0)

f64_unmodelled == float_of("unmodelled", 0)

\* A finite float, kept while q stays in the range the model computes in.
f64_fin(q) ==
  IF q >= -1000000000 /\ q <= 1000000000 THEN float_of("fin", q) ELSE f64_unmodelled

new_float(v) == v

is_unmodelled(n) == n.cls = "unmodelled"

int_abs(x) == IF x < 0 THEN -x ELSE x

int_sign(x) == IF x < 0 THEN -1 ELSE 1

f64_sign(a) == IF a.cls = "ninf" \/ (a.cls = "fin" /\ a.q < 0) THEN -1 ELSE 1

f64_is_inf(a) == a.cls \in {"pinf", "ninf"}

f64_inf(sign) == IF sign < 0 THEN float_of("ninf", 0) ELSE float_of("pinf", 0)

f64_neg(a) ==
  CASE a.cls = "fin"  -> float_of("fin", -a.q)
    [] a.cls = "pinf" -> float_of("ninf", 0)
    [] a.cls = "ninf" -> float_of("pinf", 0)
    [] OTHER          -> a

f64_add(a, b) ==
  CASE is_unmodelled(a) \/ is_unmodelled(b) -> f64_unmodelled
    [] a.cls = "nan" \/ b.cls = "nan" -> f64_nan
    [] f64_is_inf(a) /\ f64_is_inf(b) -> IF a.cls = b.cls THEN a ELSE f64_nan
    [] f64_is_inf(a) -> a
    [] f64_is_inf(b) -> b
    [] OTHER -> f64_fin(a.q + b.q)

f64_sub(a, b) == f64_add(a, f64_neg(b))

f64_mul(a, b) ==
  CASE is_unmodelled(a) \/ is_unmodelled(b) -> f64_unmodelled
    [] a.cls = "nan" \/ b.cls = "nan" -> f64_nan
    [] f64_is_inf(a) \/ f64_is_inf(b) ->
         IF (a.cls = "fin" /\ a.q = 0) \/ (b.cls = "fin" /\ b.q = 0)
         THEN f64_nan ELSE f64_inf(f64_sign(a) * f64_sign(b))
    [] int_abs(a.q) > 46340 \/ int_abs(b.q) > 46340 -> f64_unmodelled
    [] (int_abs(a.q) * int_abs(b.q)) % FScale # 0 -> f64_unmodelled
    [] OTHER ->
         f64_fin(int_sign(a.q) * int_sign(b.q) * ((int_abs(a.q) * int_abs(b.q)) \div FScale))

f64_div(a, b) ==
  CASE is_unmodelled(a) \/ is_unmodelled(b) -> f64_unmodelled
    [] a.cls = "nan" \/ b.cls = "nan" -> f64_nan
    [] f64_is_inf(a) -> IF f64_is_inf(b) THEN f64_nan ELSE f64_inf(f64_sign(a) * f64_sign(b))
    [] f64_is_inf(b) -> f64_fin(0)
    [] b.q = 0 -> IF a.q = 0 THEN f64_nan ELSE f64_inf(f64_sign(a))
    [] int_abs(a.q) > 2000000 -> f64_unmodelled
    [] (int_abs(a.q) * FScale) % int_abs(b.q) # 0 -> f64_unmodelled
    [] OTHER ->
         f64_fin(int_sign(a.q) * int_sign(b.q) * ((int_abs(a.q) * FScale) \div int_abs(b.q)))

\* Rust's % on f64: the remainder has the sign of the dividend.
f64_rem(a, b) ==
  CASE is_unmodelled(a) \/ is_unmodelled(b) -> f64_unmodelled
    [] a.cls = "nan" \/ b.cls = "nan" -> f64_nan
    [] f64_is_inf(a) -> f64_nan
    [] f64_is_inf(b) -> a
    [] b.q = 0 -> f64_nan
    [] OTHER -> f64_fin(int_sign(a.q) * (int_abs(a.q) % int_abs(b.q)))

\* The largest r in lo..hi with r * r <= n (hi <= 46340).
RECURSIVE isqrt(_, _, _)
isqrt(n, lo, hi) ==
  IF lo >= hi THEN lo
  ELSE IF ((lo + hi + 1) \div 2) * ((lo + hi + 1) \div 2) <= n
       THEN isqrt(n, (lo + hi + 1) \div 2, hi)
       ELSE isqrt(n, lo, ((lo + hi + 1) \div 2) - 1)

f64_sqrt_exact(n, r) == IF r * r = n THEN f64_fin(r) ELSE f64_unmodelled

f64_sqrt(a) ==
  CASE is_unmodelled(a) -> f64_unmodelled
    [] a.cls = "nan" \/ a.cls = "ninf" -> f64_nan
    [] a.cls = "pinf" -> a
    [] a.q < 0 -> f64_nan
    [] a.q > 2000000 -> f64_unmodelled
    [] OTHER -> f64_sqrt_exact(a.q * FScale, isqrt(a.q * FScale, 0, 46340))

\* `v as u64` for an f64: truncates toward zero, saturates, maps NaN to 0.
f64_as_u64(a) ==
  CASE a.cls = "pinf" -> u64_max
    [] a.cls = "fin" /\ a.q > 0 -> u64_from(a.q \div FScale)
    [] OTHER -> u64_zero

\* The 64-bit two's-complement pattern of a small integer n.
i64_from(n) == IF n >= 0 THEN u64_from(n) ELSE u64_wrapping_neg(u64_from(-n))

\* The bits (sign-extended to 64) of the least and greatest value of a width's type.
width_min(w) ==
  IF width_signed(w)
  THEN [k \in 1..8 |-> IF k < width_bytes(w) THEN 0
                       ELSE IF k = width_bytes(w) THEN 128 ELSE 255]
  ELSE u64_zero

width_max(w) ==
  IF width_signed(w)
  THEN [k \in 1..8 |-> IF k < width_bytes(w) THEN 255
                       ELSE IF k = width_bytes(w) THEN 127 ELSE 0]
  ELSE as_mask(w)

\* Whether a 64-bit pattern is negative as an i64.
i64_negative(a) == a[8] >= 128

\* Signed comparison of two 64-bit patterns.
i64_cmp(a, b) ==
  IF i64_negative(a) # i64_negative(b)
  THEN (IF i64_negative(a) THEN -1 ELSE 1)
  ELSE u64_cmp(a, b)

\* `v as T` for an integer pattern v and the type T of width w, widened back to
\* 64 bits the way `as u64` does (sign extension for a signed T).
int_as(v, w) ==
  IF width_signed(w) /\ v[width_bytes(w)] >= 128
  THEN [k \in 1..8 |-> IF k <= width_bytes(w) THEN v[k] ELSE 255]
  ELSE mask(w, v)

f64_clamp(bits, w) ==
  IF i64_cmp(bits, width_min(w)) < 0 THEN width_min(w)
  ELSE IF i64_cmp(bits, width_max(w)) > 0 THEN width_max(w)
  ELSE bits

\* `v as T` for an f64 v, widened back to 64 bits: truncation toward zero,
\* saturation at the type's bounds, NaN to 0.
f64_as(a, w) ==
  CASE a.cls = "pinf" -> width_max(w)
    [] a.cls = "ninf" -> width_min(w)
    [] a.cls = "fin" /\ w = "U64" -> f64_as_u64(a)
    [] a.cls = "fin" ->
         f64_clamp(i64_from(int_sign(a.q) * (int_abs(a.q) \div FScale)), w)
    [] OTHER -> u64_zero

\* number_cast!(v, w, f64): the integer of width w as a float.
int_as_f64(v, w) ==
  IF i64_negative(int_as(v, w)) /\ width_signed(w)
  THEN (IF u64_is_small(u64_wrapping_neg(int_as(v, w)))
           /\ u64_small(u64_wrapping_neg(int_as(v, w))) <= 1000000
        THEN f64_fin(-(u64_small(u64_wrapping_neg(int_as(v, w))) * FScale))
        ELSE f64_unmodelled)
  ELSE (IF u64_is_small(mask(w, v)) /\ u64_small(mask(w, v)) <= 1000000
        THEN f64_fin(u64_small(mask(w, v)) * FScale)
        ELSE f64_unmodelled)

\* number_cast!(v, w, T) for an integer type T.
number_cast(v, w, t) == int_as(int_as(v, w), t)

\* impl From<Number> for f64, for the integer types, for bool.
f64_from_number(src) ==
  IF src.kind = "Integer" THEN int_as_f64(src.bits, src.width) ELSE src

int_from_number(src, t) ==
  IF src.kind = "Integer" THEN number_cast(src.bits, src.width, t)
  ELSE f64_as(src, t)

bool_from_number(src) ==
  IF src.kind = "Integer" THEN src.bits # u64_zero
  ELSE ~(src.cls = "fin" /\ src.q = 0)

\* impl From<T> for Number.
number_from_int(v, t) == new_integer(v, t)

number_from_bool(b) == new_integer(u64_from(IF b THEN 1 ELSE 0), "U8")

\* ------------------------------------------------------------------------
\* Outcomes of a call: a returned value, a returned Err, or a panic.
\* ------------------------------------------------------------------------

no_number == [kind |-> "None", bits |-> u64_zero, width |-> "U64", cls |-> "none", q |-> 0]

Ok(v) == [st |-> "ok", val |-> v, msg |-> ""]

Err(m) == [st |-> "err", val |-> no_number, msg |-> m]

Panic(m) == [st |-> "panic", val |-> no_number, msg |-> m]

\* The two build profiles: overflow checks are on in "debug", off in "release".
Builds == {"debug", "release"}

overflow_checks(b) == b = "debug"

\* ------------------------------------------------------------------------
\* Operators on Number (number.rs)
\* ------------------------------------------------------------------------

\* v1 $op rhs on u64, then Number::new_integer(_, w).
integer_wrapped(r, w, b, m) ==
  IF r.overflow /\ overflow_checks(b) THEN Panic(m) ELSE Ok(new_integer(r.bits, w))

integer_arithmetic(op, v1, rhs, w, b) ==
  CASE op = "+" -> integer_wrapped(u64_add(v1, rhs), w, b, "attempt to add with overflow")
    [] op = "-" -> integer_wrapped(u64_sub(v1, rhs), w, b, "attempt to subtract with overflow")
    [] op = "*" -> integer_wrapped(u64_mul(v1, rhs), w, b, "attempt to multiply with overflow")
    [] op = "/" -> IF rhs = u64_zero THEN Panic("attempt to divide by zero")
                   ELSE Ok(new_integer(u64_divrem(v1, rhs).q, w))
    [] op = "%" -> IF rhs = u64_zero
                   THEN Panic("attempt to calculate the remainder with a divisor of zero")
                   ELSE Ok(new_integer(u64_divrem(v1, rhs).r, w))

float_arithmetic(op, v1, v2) ==
  CASE op = "+" -> f64_add(v1, v2)
    [] op = "-" -> f64_sub(v1, v2)
    [] op = "*" -> f64_mul(v1, v2)
    [] op = "/" -> f64_div(v1, v2)
    [] op = "%" -> f64_rem(v1, v2)

\* The right operand as the integer arithmetic sees it: w.mask(v2) or
\* w.mask(v2 as u64).
arithmetic_rhs(w, rhs) ==
  IF rhs.kind = "Integer" THEN mask(w, rhs.bits) ELSE mask(w, f64_as_u64(rhs))

impl_arithmetic_op(op, self, rhs, b) ==
  IF is_unmodelled(self) \/ is_unmodelled(rhs) THEN Ok(f64_unmodelled)
  ELSE IF self.kind = "Integer"
  THEN integer_arithmetic(op, self.bits, arithmetic_rhs(self.width, rhs), self.width, b)
  ELSE Ok(new_float(float_arithmetic(op, self, f64_from_number(rhs))))

bitwise_rhs(w, rhs) ==
  IF rhs.kind = "Integer" THEN rhs.bits ELSE mask(w, f64_as_u64(rhs))

integer_bitwise(op, v1, rhs, w, b) ==
  CASE op \in {"&", "|", "^"} -> Ok(new_integer(u64_bitop(op, v1, rhs), w))
    [] op = "<<" ->
         IF u64_shift_overflow(rhs) /\ overflow_checks(b)
         THEN Panic("attempt to shift left with overflow")
         ELSE Ok(new_integer(u64_shl(v1, u64_shift_amount(rhs)), w))
    [] op = ">>" ->
         IF u64_shift_overflow(rhs) /\ overflow_checks(b)
         THEN Panic("attempt to shift right with overflow")
         ELSE Ok(new_integer(u64_shr(v1, u64_shift_amount(rhs)), w))

impl_bitwise_op(op, self, rhs, b) ==
  IF is_unmodelled(self) \/ is_unmodelled(rhs) THEN Ok(f64_unmodelled)
  ELSE IF self.kind = "Integer"
  THEN integer_bitwise(op, self.bits, bitwise_rhs(self.width, rhs), self.width, b)
  ELSE Ok(new_float(f64_nan))

neg(self) ==
  IF self.kind = "Integer" THEN new_integer(u64_wrapping_neg(self.bits), self.width)
  ELSE new_float(f64_neg(self))

not(self) ==
  IF self.kind = "Integer" THEN new_integer(u64_not(self.bits), self.width)
  ELSE number_from_bool(~(self.cls = "fin" /\ self.q = 0))

\* integer_cmp!(v1, v2, w): both sides cast to the type of w, then compared.
integer_cmp(x1, x2, w) == IF width_signed(w) THEN i64_cmp(x1, x2) ELSE u64_cmp(x1, x2)

\* approx_eq!(f64, a, b): at the model's resolution, equality of non-NaN floats.
approx_eq(a, b) ==
  /\ a.cls # "nan"
  /\ b.cls # "nan"
  /\ a.cls = b.cls
  /\ a.q = b.q

f64_lt(a, b) ==
  CASE a.cls = "nan" \/ b.cls = "nan" -> FALSE
    [] a.cls = "ninf" -> b.cls # "ninf"
    [] a.cls = "pinf" -> FALSE
    [] b.cls = "pinf" -> TRUE
    [] b.cls = "ninf" -> FALSE
    [] OTHER -> a.q < b.q

float_cmp(v1, vf) == IF approx_eq(v1, vf) THEN 0 ELSE IF f64_lt(v1, vf) THEN -1 ELSE 1

\* Ord::cmp: -1 is Less, 0 is Equal, 1 is Greater.
cmp(self, other) ==
  IF self.kind = "Integer"
  THEN (IF other.kind = "Integer"
        THEN integer_cmp(int_as(self.bits, self.width), int_as(other.bits, self.width), self.width)
        ELSE integer_cmp(int_as(self.bits, self.width), f64_as(other, self.width), self.width))
  ELSE float_cmp(self, f64_from_number(other))

comparison(op, a, b) ==
  CASE op = "<"  -> cmp(a, b) = -1
    [] op = ">"  -> cmp(a, b) = 1
    [] op = ">=" -> cmp(a, b) >= 0
    [] op = "<=" -> cmp(a, b) <= 0
    [] op = "==" -> cmp(a, b) = 0
    [] op = "!=" -> cmp(a, b) # 0

\* Number::from(0) is an Integer of width I32.
abs(self) ==
  IF self.kind = "Integer"
  THEN (IF width_signed(self.width) /\ cmp(self, new_integer(u64_zero, "I32")) = -1
        THEN new_integer(u64_wrapping_neg(self.bits), self.width)
        ELSE new_integer(self.bits, self.width))
  ELSE (IF self.cls = "fin" THEN float_of("fin", int_abs(self.q))
        ELSE IF self.cls = "ninf" THEN float_of("pinf", 0) ELSE self)

\* f64::floor, f64::ceil, f64::round (half away from zero), f64::sqrt.
f64_floor(a) ==
  IF a.cls # "fin" THEN a
  ELSE IF a.q >= 0 THEN f64_fin((a.q \div FScale) * FScale)
  ELSE f64_fin(-(((-a.q) + FScale - 1) \div FScale) * FScale)

f64_ceil(a) == f64_neg(f64_floor(f64_neg(a)))

f64_round(a) ==
  IF a.cls # "fin" THEN a
  ELSE f64_fin(int_sign(a.q) * (((2 * int_abs(a.q) + FScale) \div (2 * FScale)) * FScale))

\* base.pow(exp) on magnitudes: square and multiply from the highest bit of the
\* 32-bit exponent e, the overflow of any product kept.
u64_pow_kept(r, overflow) == [bits |-> r.bits, overflow |-> r.overflow \/ overflow]

u64_pow_square(p) == u64_pow_kept(u64_mul(p.bits, p.bits), p.overflow)

u64_pow_times(p, m) == u64_pow_kept(u64_mul(p.bits, m), p.overflow)

u64_pow_step(p, bit, m) ==
  IF p.bits = u64_from(1) /\ ~p.overflow
  THEN (IF bit = 1 THEN [bits |-> m, overflow |-> FALSE] ELSE p)
  ELSE IF bit = 1 THEN u64_pow_times(u64_pow_square(p), m)
  ELSE u64_pow_square(p)

RECURSIVE u64_pow_bits(_, _, _, _)
u64_pow_bits(p, x, m, t) ==
  IF t = 8 THEN p
  ELSE u64_pow_step(u64_pow_bits(p, x, m, t + 1), (x \div pow2[t + 1]) % 2, m)

u64_pow_byte(p, x, m) ==
  IF p.bits = u64_from(1) /\ ~p.overflow /\ x = 0 THEN p ELSE u64_pow_bits(p, x, m, 0)

RECURSIVE u64_pow_from(_, _, _)
u64_pow_from(m, e, k) ==
  IF k = 5 THEN [bits |-> u64_from(1), overflow |-> FALSE]
  ELSE u64_pow_byte(u64_pow_from(m, e, k + 1), e[k], m)

u64_pow(m, e) == u64_pow_from(m, e, 1)

\* (v as T).pow(exp) as u64 for the type T of width w. p is the power of the
\* magnitude of v, negative whether the result is negative: the result leaves
\* the range of T when the magnitude exceeds the bound of its sign.
integer_pow_bound(w, negative) ==
  IF ~width_signed(w) THEN as_mask(w)
  ELSE IF negative THEN u64_wrapping_neg(width_min(w))
  ELSE width_max(w)

integer_pow_result(p, negative, w, b) ==
  IF (p.overflow \/ u64_cmp(p.bits, integer_pow_bound(w, negative)) > 0) /\ overflow_checks(b)
  THEN Panic("attempt to multiply with overflow")
  ELSE Ok(new_integer(IF negative THEN u64_wrapping_neg(p.bits) ELSE p.bits, w))

integer_pow(v, w, exp, b) ==
  IF width_signed(w) /\ i64_negative(int_as(v, w))
  THEN integer_pow_result(u64_pow(u64_wrapping_neg(int_as(v, w)), exp), exp[1] % 2 = 1, w, b)
  ELSE integer_pow_result(u64_pow(mask(w, v), exp), FALSE, w, b)

\* v.powf(y) where the fixed-point form holds it.
f64_powf(v, y) ==
  CASE y.cls = "fin" /\ y.q = 0 -> f64_fin(FScale)
    [] v.cls = "fin" /\ v.q = FScale -> f64_fin(FScale)
    [] y.cls = "fin" /\ y.q = FScale -> v
    [] OTHER -> f64_unmodelled

\* Number::pow: the exponent is u32::from(other.abs()).
pow(self, other, b) ==
  IF is_unmodelled(self) \/ is_unmodelled(other) THEN Ok(f64_unmodelled)
  ELSE IF self.kind = "Integer"
  THEN integer_pow(self.bits, self.width, int_from_number(abs(other), "U32"), b)
  ELSE Ok(new_float(f64_powf(self, f64_from_number(other))))

\* The signed width of the same size.
signed_width(w) ==
  CASE w \in {"U64", "I64"} -> "I64"
    [] w \in {"U32", "I32"} -> "I32"
    [] w \in {"U16", "I16"} -> "I16"
    [] w \in {"U8", "I8"} -> "I8"

\* Number::to_signed.
to_signed(self) ==
  IF self.kind = "Integer"
  THEN (IF width_signed(self.width) THEN new_integer(self.bits, self.width)
        ELSE new_integer(int_as(self.bits, signed_width(self.width)), signed_width(self.width)))
  ELSE new_integer(f64_as(self, "I64"), "I64")

\* Number::to_unsigned: a signed integer is multiplied by its own value as u64
\* and keeps its width.
to_unsigned(self, b) ==
  IF self.kind = "Integer"
  THEN (IF width_signed(self.width)
        THEN integer_wrapped(u64_mul(number_cast(self.bits, self.width, "U64"), self.bits),
                             self.width, b, "attempt to multiply with overflow")
        ELSE Ok(new_integer(self.bits, self.width)))
  ELSE Ok(new_integer(f64_as_u64(self), "U64"))

\* Number::to_float.
to_float(self) ==
  IF self.kind = "Integer" THEN new_float(int_as_f64(self.bits, self.width))
  ELSE new_float(self)

\* Number::to_width: number_cast!(v, w, u64) for an integer and for a float.
to_width(self, w) ==
  IF self.kind = "Integer" THEN new_integer(number_cast(self.bits, w, "U64"), w)
  ELSE new_integer(f64_as(self, w), w)

\* ------------------------------------------------------------------------
\* Value: a Number paired with a Unit
\* ------------------------------------------------------------------------

Unit == {"Raw", "Byte", "Kilobyte", "Megabyte", "Gigabyte", "Terabyte", "Petabyte",
         "Celsius", "Fahrenheit", "Kelvin"}

new_raw(number) == [number |-> number, unit |-> "Raw"]

\* Value::from((number, unit)). Only raw values are built by the expressions
\* explored here; a unitted value is kept as an unmodelled number.
value_from(number, unit) ==
  IF unit = "Raw" THEN new_raw(number) ELSE [number |-> f64_unmodelled, unit |-> unit]

no_value == new_raw(no_number)

\* ------------------------------------------------------------------------
\* Function and constant registry (functions.rs)
\* ------------------------------------------------------------------------

\* constant!(v): Value::new_raw(Number::from(v)). PI, E, F64_MIN and F64_MAX
\* have no fixed-point form.
CONST_TABLE ==
  [n \in {"PI", "E", "NAN", "INF", "NEG_INF", "F64_MIN", "F64_MAX",
          "U64_MIN", "U64_MAX", "U32_MIN", "U32_MAX", "U16_MIN", "U16_MAX",
          "U8_MIN", "U8_MAX", "I64_MIN", "I64_MAX", "I32_MIN", "I32_MAX",
          "I16_MIN", "I16_MAX", "I8_MIN", "I8_MAX"} |->
     CASE n = "NAN" -> new_raw(f64_nan)
       [] n = "INF" -> new_raw(float_of("pinf", 0))
       [] n = "NEG_INF" -> new_raw(float_of("ninf", 0))
       [] n \in {"PI", "E", "F64_MIN", "F64_MAX"} -> new_raw(f64_unmodelled)
       [] n = "U64_MIN" -> new_raw(number_from_int(width_min("U64"), "U64"))
       [] n = "U64_MAX" -> new_raw(number_from_int(width_max("U64"), "U64"))
       [] n = "U32_MIN" -> new_raw(number_from_int(width_min("U32"), "U32"))
       [] n = "U32_MAX" -> new_raw(number_from_int(width_max("U32"), "U32"))
       [] n = "U16_MIN" -> new_raw(number_from_int(width_min("U16"), "U16"))
       [] n = "U16_MAX" -> new_raw(number_from_int(width_max("U16"), "U16"))
       [] n = "U8_MIN" -> new_raw(number_from_int(width_min("U8"), "U8"))
       [] n = "U8_MAX" -> new_raw(number_from_int(width_max("U8"), "U8"))
       [] n = "I64_MIN" -> new_raw(number_from_int(width_min("I64"), "I64"))
       [] n = "I64_MAX" -> new_raw(number_from_int(width_max("I64"), "I64"))
       [] n = "I32_MIN" -> new_raw(number_from_int(width_min("I32"), "I32"))
       [] n = "I32_MAX" -> new_raw(number_from_int(width_max("I32"), "I32"))
       [] n = "I16_MIN" -> new_raw(number_from_int(width_min("I16"), "I16"))
       [] n = "I16_MAX" -> new_raw(number_from_int(width_max("I16"), "I16"))
       [] n = "I8_MIN" -> new_raw(number_from_int(width_min("I8"), "I8"))
       [] n = "I8_MAX" -> new_raw(number_from_int(width_max("I8"), "I8"))]

UnaryNames ==
  {"+u", "-u", "!u", "~u",
   "u64", "u32", "u16", "u8", "i64", "i32", "i16", "i8", "f64",
   "bytes", "kilobyte", "megabyte", "gigabyte", "terabyte", "petabyte",
   "celsius", "fahrenheit", "kelvin",
   "abs", "sin", "cos", "tan", "asin", "acos", "atan", "floor", "ceil", "round",
   "sqrt", "exp", "ln", "log2", "log10", "deg", "rad"}

BinaryNames ==
  {"+", "-", "*", "/", "%", "&", "|", "^", "<<", ">>",
   "<", ">", ">=", "<=", "==", "!=", "&&", "||"}

\* The arity of each entry: Function::Unary or Function::Binary.
FUNC_TABLE ==
  [n \in UnaryNames \cup BinaryNames |-> IF n \in UnaryNames THEN "Unary" ELSE "Binary"]

ALIAS_TABLE ==
  [n \in {"KiB", "MiB", "GiB", "TiB", "PiB", "tempC", "tempF", "tempK"} |->
     CASE n = "KiB" -> "kilobyte"
       [] n = "MiB" -> "megabyte"
       [] n = "GiB" -> "gigabyte"
       [] n = "TiB" -> "terabyte"
       [] n = "PiB" -> "petabyte"
       [] n = "tempC" -> "celsius"
       [] n = "tempF" -> "fahrenheit"
       [] n = "tempK" -> "kelvin"]

\* Option values: None, or Some(v).
None == [some |-> FALSE, v |-> "None"]

Some(x) == [some |-> TRUE, v |-> x]

get_constant(name) ==
  IF name \in DOMAIN CONST_TABLE THEN Some(CONST_TABLE[name]) ELSE None

\* Some(f) carries the canonical name of the entry found.
get_function(name) ==
  IF name \in DOMAIN FUNC_TABLE THEN Some(name)
  ELSE IF name \in DOMAIN ALIAS_TABLE /\ ALIAS_TABLE[name] \in DOMAIN FUNC_TABLE
  THEN Some(ALIAS_TABLE[name])
  ELSE None

\* A cast table whose every entry targets u8.
cast_width_u8(f) == "U8"

cast_width(f) ==
  CASE f = "u64" -> "U64" [] f = "u32" -> "U32" [] f = "u16" -> "U16" [] f = "u8" -> "U8"
    [] f = "i64" -> "I64" [] f = "i32" -> "I32" [] f = "i16" -> "I16" [] f = "i8" -> "I8"

\* A Result over Number lifted to a Result over Value with the given unit.
with_unit(r, unit) == IF r.st = "ok" THEN Ok(value_from(r.val, unit)) ELSE r

\* The closure of a unary entry f applied to the value v.
unary_closure(f, v) ==
  CASE f = "+u" -> Ok(value_from(v.number, v.unit))
    [] f = "-u" -> Ok(value_from(neg(v.number), v.unit))
    [] f = "!u" -> Ok(value_from(number_from_bool(~bool_from_number(v.number)), v.unit))
    [] f = "~u" -> Ok(value_from(not(v.number), v.unit))
    [] f \in {"u64", "u32", "u16", "u8", "i64", "i32", "i16", "i8"} ->
         Ok(value_from(number_from_int(int_from_number(v.number, cast_width(f)), cast_width(f)), "Raw"))
    [] f = "f64" -> Ok(value_from(new_float(f64_from_number(v.number)), "Raw"))
    [] f = "abs" -> Ok(value_from(abs(v.number), v.unit))
    [] f = "floor" -> Ok(value_from(new_float(f64_floor(f64_from_number(v.number))), v.unit))
    [] f = "ceil" -> Ok(value_from(new_float(f64_ceil(f64_from_number(v.number))), v.unit))
    [] f = "round" -> Ok(value_from(new_float(f64_round(f64_from_number(v.number))), v.unit))
    [] f = "sqrt" -> Ok(value_from(new_float(f64_sqrt(f64_from_number(v.number))), v.unit))
    [] OTHER -> Ok(value_from(f64_unmodelled, v.unit))

call_unary(f, v) ==
  IF is_unmodelled(v.number) THEN Ok(value_from(f64_unmodelled, v.unit))
  ELSE unary_closure(f, v)

\* The closure of a binary entry f applied to a and b; bd is the build profile.
binary_closure(f, a, b, bd) ==
  CASE f \in {"+", "-", "*", "/", "%"} ->
         with_unit(impl_arithmetic_op(f, a.number, b.number, bd), a.unit)
    [] f \in {"&", "|", "^", "<<", ">>"} ->
         with_unit(impl_bitwise_op(f, a.number, b.number, bd), a.unit)
    [] f \in {"<", ">", ">=", "<=", "==", "!="} ->
         Ok(value_from(number_from_bool(comparison(f, a.number, b.number)), a.unit))
    [] f = "&&" ->
         Ok(value_from(number_from_bool(bool_from_number(a.number) /\ bool_from_number(b.number)), a.unit))
    [] f = "||" ->
         Ok(value_from(number_from_bool(bool_from_number(a.number) \/ bool_from_number(b.number)), a.unit))

call_binary(f, a, b, bd) ==
  IF is_unmodelled(a.number) \/ is_unmodelled(b.number)
  THEN Ok(value_from(f64_unmodelled, a.unit))
  ELSE binary_closure(f, a, b, bd)

\* ------------------------------------------------------------------------
\* Units (unit.rs)
\* ------------------------------------------------------------------------

SizeUnits == {"Byte", "Kilobyte", "Megabyte", "Gigabyte", "Terabyte", "Petabyte"}

TemperatureUnits == {"Celsius", "Fahrenheit", "Kelvin"}

is_size(u) == u \in SizeUnits

group(u) ==
  CASE u = "Raw" -> "raw"
    [] u \in SizeUnits -> "size"
    [] u \in TemperatureUnits -> "temperature"

\* The power of 1024 a size unit stands for.
size_power(u) ==
  CASE u = "Byte" -> 0 [] u = "Kilobyte" -> 1 [] u = "Megabyte" -> 2
    [] u = "Gigabyte" -> 3 [] u = "Terabyte" -> 4 [] u = "Petabyte" -> 5

\* Number::from(1024u64.pow(k)).
number_from_1024_pow(k) == new_integer(u64_shl(u64_from(1), 10 * k), "U64")

\* to_unsigned of the outcome r of an operator; a float outside the fixed-point
\* form stays one.
then_to_unsigned(r, b) ==
  IF r.st # "ok" THEN r
  ELSE IF is_unmodelled(r.val) THEN Ok(f64_unmodelled)
  ELSE to_unsigned(r.val, b)

\* Unit::normalize(number, from). The outcome is Ok(number) or a panic of the
\* multiplication or of to_unsigned.
normalize(number, from, b) ==
  CASE from = "Byte" -> then_to_unsigned(Ok(number), b)
    [] from \in SizeUnits \ {"Byte"} ->
         then_to_unsigned(
           impl_arithmetic_op("*", number, number_from_1024_pow(size_power(from)), b), b)
    [] from \in TemperatureUnits -> Ok(to_float(number))
    [] OTHER -> Ok(number)

\* Number::from(x) of the float constants of Unit::convert; 5f64 / 9f64 has no
\* fixed-point form.
nine_fifths == f64_fin(1800)

five_ninths == f64_unmodelled

thirty_two == f64_fin(32 * FScale)

kelvin_offset == f64_fin(273150)

\* a op b for a Float a: the operator of impl_arithmetic_op, which cannot fail.
float_op(op, a, b) == impl_arithmetic_op(op, a, b, "release").val

\* The temperature arms of Unit::convert.
convert_temperature(value, from, to) ==
  CASE from = "Celsius" /\ to = "Fahrenheit" ->
         float_op("+", float_op("*", to_float(value), nine_fifths), thirty_two)
    [] from = "Celsius" /\ to = "Kelvin" -> float_op("+", to_float(value), kelvin_offset)
    [] from = "Fahrenheit" /\ to = "Celsius" ->
         float_op("*", float_op("-", to_float(value), thirty_two), five_ninths)
    [] from = "Fahrenheit" /\ to = "Kelvin" ->
         float_op("+", float_op("*", float_op("-", to_float(value), thirty_two), five_ninths),
                  kelvin_offset)
    [] from = "Kelvin" /\ to = "Celsius" -> float_op("-", to_float(value), kelvin_offset)
    [] from = "Kelvin" /\ to = "Fahrenheit" ->
         float_op("+", float_op("*", float_op("-", to_float(value), kelvin_offset), nine_fifths),
                  thirty_two)

\* An outcome Ok(number) as the outcome Ok(Some(number)).
some_of(r) == IF r.st = "ok" THEN Ok(Some(r.val)) ELSE r

\* Unit::convert(value, from, to): Ok(Some(number)), Ok(None), or a panic.
convert(value, from, to, b) ==
  CASE from = "Raw" /\ to = "Raw" -> Ok(Some(value))
    [] from = "Raw" /\ to # "Raw" -> some_of(normalize(value, to, b))
    [] from # "Raw" /\ to = "Raw" -> some_of(normalize(value, from, b))
    [] from # "Raw" /\ to # "Raw" /\ from = to -> Ok(Some(value))
    [] from # to /\ is_size(from) /\ is_size(to) -> Ok(Some(value))
    [] from # to /\ from \in TemperatureUnits /\ to \in TemperatureUnits ->
         Ok(Some(convert_temperature(value, from, to)))
    [] OTHER -> Ok(None)

\* ------------------------------------------------------------------------
\* Bytes and strings
\* ------------------------------------------------------------------------

\* A program is a sequence of bytes. An ASCII byte is written as its character;
\* the bytes of the two multi-byte characters used here are named by their hex
\* value: U+00E9 is xC3 xA9, U+20AC is xE2 x82 xAC.
digit_seq == <<"0", "1", "2", "3", "4", "5", "6", "7", "8", "9">>

bin_chars == {"0", "1"}

oct_chars == {"0", "1", "2", "3", "4", "5", "6", "7"}

digit_chars == {digit_seq[k] : k \in 1..10}

hex_chars == digit_chars \cup {"a", "b", "c", "d", "e", "f", "A", "B", "C", "D", "E", "F"}

ident_chars ==
  {"a", "b", "c", "d", "e", "f", "g", "h", "i", "j", "k", "l", "m",
   "n", "o", "p", "q", "r", "s", "t", "u", "v", "w", "x", "y", "z",
   "A", "B", "C", "D", "E", "F", "G", "H", "I", "J", "K", "L", "M",
   "N", "O", "P", "Q", "R", "S", "T", "U", "V", "W", "X", "Y", "Z", "_"}

utf8_lead2 == {"xC3"}

utf8_lead3 == {"xE2"}

utf8_cont == {"xA9", "x82", "xAC"}

is_ascii(c) == c \notin (utf8_lead2 \cup utf8_lead3 \cup utf8_cont)

\* Whether the bytes b[k..] are well-formed UTF-8.
RECURSIVE utf8_valid_from(_, _)
utf8_valid_from(b, k) ==
  IF k > Len(b) THEN TRUE
  ELSE IF is_ascii(b[k]) THEN utf8_valid_from(b, k + 1)
  ELSE IF b[k] \in utf8_lead2
  THEN k + 1 <= Len(b) /\ b[k + 1] \in utf8_cont /\ utf8_valid_from(b, k + 2)
  ELSE IF b[k] \in utf8_lead3
  THEN /\ k + 2 <= Len(b)
       /\ b[k + 1] \in utf8_cont
       /\ b[k + 2] \in utf8_cont
       /\ utf8_valid_from(b, k + 3)
  ELSE FALSE

RECURSIVE str_from(_, _)
str_from(b, k) == IF k > Len(b) THEN "" ELSE b[k] \o str_from(b, k + 1)

\* std::str::from_utf8: Some(the string) for well-formed bytes, None otherwise.
from_utf8(b) == IF utf8_valid_from(b, 1) THEN Some(str_from(b, 1)) ELSE None

\* program[i] and &program[i..j] with the source's zero-based indices.
byte_at(program, i) == program[i + 1]

slice(program, i, j) == SubSeq(program, i + 1, j)

\* char_at!(p, i): the byte, or NUL past the end.
char_at(p, i) == IF i < Len(p) THEN p[i + 1] ELSE "nul"

digit_value(c) ==
  CASE c \in digit_chars -> (CHOOSE k \in 0..9 : digit_seq[k + 1] = c)
    [] c \in {"a", "A"} -> 10
    [] c \in {"b", "B"} -> 11
    [] c \in {"c", "C"} -> 12
    [] c \in {"d", "D"} -> 13
    [] c \in {"e", "E"} -> 14
    [] c \in {"f", "F"} -> 15

\* One more digit d appended to the u64 value acc.bits; overflow is remembered.
radix_push(acc, added) ==
  [bits |-> added.bits, overflow |-> acc.overflow \/ added.overflow]

radix_step(acc, scaled, d) ==
  radix_push([bits |-> acc.bits, overflow |-> acc.overflow \/ scaled.overflow],
             u64_add(scaled.bits, u64_from(d)))

radix_digit(acc, base, d) == radix_step(acc, u64_mul(acc.bits, u64_from(base)), d)

\* u64::from_str_radix over the digits b[1..k].
RECURSIVE radix_from(_, _, _)
radix_from(b, k, base) ==
  IF k = 0 THEN [bits |-> u64_zero, overflow |-> FALSE]
  ELSE radix_digit(radix_from(b, k - 1, base), base, digit_value(b[k]))

radix_result(r) == IF r.overflow THEN None ELSE Some(r.bits)

from_str_radix(b, base) == radix_result(radix_from(b, Len(b), base))

\* The decimal number written by the digits b, for short digit strings.
RECURSIVE decimal_small(_, _)
decimal_small(b, k) ==
  IF k = 0 THEN 0 ELSE 10 * decimal_small(b, k - 1) + digit_value(b[k])

\* The position of the '.' in b.
period_at(b) == CHOOSE k \in 1..Len(b) : b[k] = "."

frac_scaled(frac) ==
  decimal_small(frac \o [k \in 1..(3 - Len(frac)) |-> "0"], 3)

\* f64::from_str over bytes of the shape digits '.' digits.
f64_from_str(b) ==
  IF period_at(b) > 7 \/ Len(b) - period_at(b) > 3 THEN f64_unmodelled
  ELSE f64_fin(decimal_small(SubSeq(b, 1, period_at(b) - 1), period_at(b) - 1) * FScale
               + frac_scaled(SubSeq(b, period_at(b) + 1, Len(b))))

\* ------------------------------------------------------------------------
\* Operators and precedence (operators.rs, parser.rs)
\* ------------------------------------------------------------------------

LONGEST_OPERATOR == 2

OPERATORS ==
  <<"+", "-", "*", "/", "%", "==", "!=", ">", "<", ">=", "<=", "&", "|", "^",
    "<<", ">>", "&&", "||", "~", "!">>

Assoc == {"Left", "Right"}

\* prec_of with + and - on the level of * / %.
prec_of_flat(op) ==
  CASE op \in {"+u", "-u"} -> 11
    [] op \in {"!u", "~u"} -> 10
    [] op \in {"*", "/", "%", "+", "-"} -> 9
    [] op \in {"<<", ">>"} -> 7
    [] op \in {">", "<", ">=", "<="} -> 6
    [] op \in {"==", "!="} -> 5
    [] op = "&" -> 4
    [] op = "^" -> 3
    [] op = "|" -> 2
    [] op \in {"&&", "||"} -> 1
    [] op = "(" -> 0

prec_of(op) ==
  CASE op \in {"+u", "-u"} -> 11
    [] op \in {"!u", "~u"} -> 10
    [] op \in {"*", "/", "%"} -> 9
    [] op \in {"+", "-"} -> 8
    [] op \in {"<<", ">>"} -> 7
    [] op \in {">", "<", ">=", "<="} -> 6
    [] op \in {"==", "!="} -> 5
    [] op = "&" -> 4
    [] op = "^" -> 3
    [] op = "|" -> 2
    [] op \in {"&&", "||"} -> 1
    [] op = "(" -> 0

PRECEDENCE_TABLE ==
  [op \in {"+u", "-u", "!u", "~u", "*", "/", "%", "+", "-", "<<", ">>",
           ">", "<", ">=", "<=", "==", "!=", "&", "^", "|", "&&", "||", "("} |->
     [prec |-> prec_of(op),
      assoc |-> IF op \in {"+u", "-u", "!u", "~u", "("} THEN "Right" ELSE "Left"]]

is_unary(str) == (str \o "u") \in DOMAIN PRECEDENCE_TABLE

\* ------------------------------------------------------------------------
\* Lexer (lexer.rs)
\* ------------------------------------------------------------------------

\* A lexer token: Integer(u64), Float(f64), Reference(u64), Identifier(String),
\* BinaryOp(String), UnaryOp(String), LParen(), RParen(), Newline().
\* num holds the payload of Integer and Reference (the u64 as an Integer of
\* width U64) and of Float; name holds the String. The field `at` is the ordinal
\* of the token in the token vector: the program does not store it, properties
\* use it to tell two occurrences of the same token apart.
Token(type, name, num) == [type |-> type, name |-> name, num |-> num, at |-> 0]

no_token == Token("None", "", no_number)

LexOk(token, j) == [st |-> "ok", push |-> TRUE, token |-> token, i |-> j, msg |-> ""]

LexSkip(j) == [st |-> "ok", push |-> FALSE, token |-> no_token, i |-> j, msg |-> ""]

LexErr(m) == [st |-> "err", push |-> FALSE, token |-> no_token, i |-> 0, msg |-> m]

LexPanic(m) == [st |-> "panic", push |-> FALSE, token |-> no_token, i |-> 0, msg |-> m]

base_digit(c, base) ==
  \/ c \in bin_chars /\ base = 2
  \/ c \in oct_chars /\ base = 8
  \/ c \in digit_chars /\ base = 10
  \/ c \in hex_chars /\ base = 16

\* The loops of the sub-lexers: the index the loop stops at, or -1 when it
\* returns the "invalid character" error (-2: "Invalid reference").
RECURSIVE scan_integer(_, _, _)
scan_integer(program, j, base) ==
  IF j >= Len(program) THEN j
  ELSE IF base_digit(byte_at(program, j), base) THEN scan_integer(program, j + 1, base)
  ELSE IF byte_at(program, j) \in ident_chars THEN -1
  ELSE j

integer_parsed(res, j) ==
  IF res.some THEN LexOk(Token("Integer", "", new_integer(res.v, "U64")), j)
  ELSE LexErr("Failed to parse integer literal")

integer_scanned(program, i, j, base) ==
  IF j = -1 THEN LexErr("Invalid character in integer literal")
  ELSE IF i = j THEN LexErr("Expected digit in integer literal")
  ELSE IF ~from_utf8(slice(program, i, j)).some THEN LexErr("Input is not valid utf8")
  ELSE integer_parsed(from_str_radix(slice(program, i, j), base), j)

lex_integer_literal(program, i, base) ==
  IF i >= Len(program) THEN LexErr("Unexpected end of input")
  ELSE integer_scanned(program, i, scan_integer(program, i, base), base)

RECURSIVE scan_float(_, _)
scan_float(program, k) ==
  IF k >= Len(program) THEN k
  ELSE IF byte_at(program, k) \in digit_chars THEN scan_float(program, k + 1)
  ELSE IF byte_at(program, k) \in ident_chars THEN -1
  ELSE k

float_scanned(program, i, j, k) ==
  IF k = -1 THEN LexErr("Invalid character in float literal")
  ELSE IF j = k THEN LexErr("Expected digit in float literal")
  ELSE IF ~from_utf8(slice(program, i, k)).some THEN LexErr("Input is not valid utf8")
  ELSE LexOk(Token("Float", "", new_float(f64_from_str(slice(program, i, k)))), k)

lex_float_literal(program, i, j) ==
  IF i >= Len(program) THEN LexErr("Unexpected end of input")
  ELSE float_scanned(program, i, j, scan_float(program, j))

RECURSIVE scan_numeric(_, _)
scan_numeric(program, j) ==
  IF j >= Len(program) THEN [j |-> j, period |-> FALSE]
  ELSE IF byte_at(program, j) \in digit_chars THEN scan_numeric(program, j + 1)
  ELSE IF byte_at(program, j) \in ident_chars THEN [j |-> -1, period |-> FALSE]
  ELSE IF byte_at(program, j) = "." THEN [j |-> j + 1, period |-> TRUE]
  ELSE [j |-> j, period |-> FALSE]

numeric_scanned(program, i, sc) ==
  IF sc.j = -1 THEN LexErr("Invalid character in numeric literal")
  ELSE IF sc.period THEN lex_float_literal(program, i, sc.j)
  ELSE lex_integer_literal(program, i, 10)

lex_numeric_literal(program, i) ==
  IF i = Len(program) - 1
  THEN (IF ~from_utf8(slice(program, i, Len(program))).some
        THEN LexErr("Input is not valid utf8")
        ELSE IF byte_at(program, i) \in digit_chars
        THEN integer_parsed(from_str_radix(slice(program, i, Len(program)), 10), i + 1)
        ELSE LexErr("Failed to parse integer literal"))
  ELSE numeric_scanned(program, i, scan_numeric(program, i))

RECURSIVE scan_reference(_, _, _, _)
scan_reference(program, j, zero, start) ==
  IF j >= Len(program) THEN j
  ELSE IF zero /\ start THEN -2
  ELSE IF byte_at(program, j) = "0" THEN scan_reference(program, j + 1, TRUE, start)
  ELSE IF byte_at(program, j) \in digit_chars THEN scan_reference(program, j + 1, FALSE, FALSE)
  ELSE IF byte_at(program, j) \in ident_chars THEN -1
  ELSE j

reference_parsed(res, j) ==
  IF res.some THEN LexOk(Token("Reference", "", new_integer(res.v, "U64")), j)
  ELSE LexErr("Failed to parse reference")

reference_scanned(program, i, j) ==
  IF j = -2 THEN LexErr("Invalid reference")
  ELSE IF j = -1 THEN LexErr("Invalid character in reference")
  ELSE IF i = j THEN LexErr("Invalid reference")
  ELSE IF ~from_utf8(slice(program, i, j)).some THEN LexErr("Input is not valid utf8")
  ELSE reference_parsed(from_str_radix(slice(program, i, j), 10), j)

lex_reference(program, i) ==
  IF i >= Len(program) THEN LexErr("Unexpected end of input after '$'")
  ELSE reference_scanned(program, i, scan_reference(program, i, FALSE, TRUE))

RECURSIVE scan_identifier(_, _)
scan_identifier(program, j) ==
  IF j >= Len(program) THEN j
  ELSE IF byte_at(program, j) \in ident_chars THEN scan_identifier(program, j + 1)
  ELSE IF byte_at(program, j) \in digit_chars THEN -1
  ELSE j

identifier_scanned(program, i, j) ==
  IF j = -1 THEN LexErr("Invalid character in identifier")
  ELSE IF ~from_utf8(slice(program, i, j)).some THEN LexErr("Input is not valid utf8")
  ELSE LexOk(Token("Identifier", from_utf8(slice(program, i, j)).v, no_number), j)

\* lex_identifier returning the index it was given.
lex_identifier_empty(program, i) == LexOk(Token("Identifier", "", no_number), i)

lex_identifier(program, i) == identifier_scanned(program, i, scan_identifier(program, i))

min(a, b) == IF a < b THEN a ELSE b

\* op_regex.find(slice): the length of the match of ^(op|op|...) with the
\* operators sorted longest first, 0 for no match.
op_regex_find(window) ==
  IF Len(window) = 2 /\ \E k \in DOMAIN OPERATORS : OPERATORS[k] = str_from(window, 1)
  THEN 2
  ELSE IF Len(window) >= 1 /\ \E k \in DOMAIN OPERATORS : OPERATORS[k] = window[1]
  THEN 1
  ELSE 0

\* tokens.last() decides between the unary and the binary form.
last_is_operand(tokens) ==
  /\ Len(tokens) > 0
  /\ tokens[Len(tokens)].type \in {"Integer", "Float", "Reference"}

operator_token(op_str, tokens) ==
  IF is_unary(op_str)
  THEN (IF ~last_is_operand(tokens)
        THEN Token("UnaryOp", op_str \o "u", no_number)
        ELSE Token("BinaryOp", op_str, no_number))
  ELSE Token("BinaryOp", op_str, no_number)

operator_matched(program, i, m, tokens) ==
  IF m = 0 THEN LexErr("Unexpected character in input")
  ELSE IF ~from_utf8(slice(program, i, i + m)).some THEN LexErr("Input is not valid utf8")
  ELSE LexOk(operator_token(from_utf8(slice(program, i, i + m)).v, tokens), i + m)

\* The wildcard arm of tokenize: possibly an operator.
lex_operator(program, i, tokens) ==
  IF ~from_utf8(slice(program, i, min(i + LONGEST_OPERATOR, Len(program)))).some
  THEN LexPanic("called Result::unwrap() on an Err value: Failed to convert slice to UTF-8")
  ELSE operator_matched(program, i,
         op_regex_find(slice(program, i, min(i + LONGEST_OPERATOR, Len(program)))), tokens)

prefix_base(c) == CASE c = "b" -> 2 [] c = "o" -> 8 [] c = "x" -> 16 [] OTHER -> 10

\* One iteration of the loop of tokenize at index i.
tokenize_step(program, i, tokens) ==
  CASE byte_at(program, i) = "0" ->
         IF char_at(program, i + 1) \in {"b", "o", "x"}
         THEN lex_integer_literal(program, i + 2, prefix_base(char_at(program, i + 1)))
         ELSE lex_numeric_literal(program, i)
    [] byte_at(program, i) \in digit_chars \ {"0"} -> lex_numeric_literal(program, i)
    [] byte_at(program, i) = "." -> lex_float_literal(program, i, i + 1)
    [] byte_at(program, i) = "$" -> lex_reference(program, i + 1)
    [] byte_at(program, i) \in ident_chars -> lex_identifier(program, i)
    [] byte_at(program, i) = "(" -> LexOk(Token("LParen", "", no_number), i + 1)
    [] byte_at(program, i) = ")" -> LexOk(Token("RParen", "", no_number), i + 1)
    [] byte_at(program, i) = "\n" -> LexOk(Token("Newline", "", no_number), i + 1)
    [] byte_at(program, i) \in {" ", "\t"} -> LexSkip(i + 1)
    [] OTHER -> lex_operator(program, i, tokens)

\* tokens.push(token), with the ordinal of the token recorded.
push_token(tokens, token) == Append(tokens, [token EXCEPT !.at = Len(tokens) + 1])

\* ------------------------------------------------------------------------
\* Parser (parser.rs)
\* ------------------------------------------------------------------------

\* A parser token: Value(Value), Identifier(String), Operator(String), LParen,
\* RParen, Newline, with the ordinal `at` of the lexer token it comes from.
PToken(type, name, value, at) == [type |-> type, name |-> name, value |-> value, at |-> at]

\* The token the parser receives for a lexer token: a literal becomes a Value
\* token (Token::as_value), a unary or binary operator an Operator token with
\* the same, suffixed or unsuffixed, symbol. The history is empty, so a reference
\* stands for the zero value.
as_parser_token(t) ==
  CASE t.type \in {"Integer", "Float"} -> PToken("Value", "", new_raw(t.num), t.at)
    [] t.type = "Reference" -> PToken("Value", "", new_raw(new_integer(u64_zero, "U64")), t.at)
    [] t.type \in {"UnaryOp", "BinaryOp"} -> PToken("Operator", t.name, no_value, t.at)
    [] OTHER -> PToken(t.type, t.name, no_value, t.at)

parser_tokens(tokens) == [k \in DOMAIN tokens |-> as_parser_token(tokens[k])]

\* is_lparen testing for the wrong parenthesis.
is_lparen_wrong(t) == t.type = "RParen"

is_lparen(t) == t.type = "LParen"

is_newline(t) == t.type = "Newline"

\* tokens.split(|t| t.is_newline()): the lines, empty ones included.
RECURSIVE split_from(_, _, _, _)
split_from(ts, k, cur, acc) ==
  IF k > Len(ts) THEN Append(acc, cur)
  ELSE IF is_newline(ts[k]) THEN split_from(ts, k + 1, <<>>, Append(acc, cur))
  ELSE split_from(ts, k + 1, Append(cur, ts[k]), acc)

split(ts) == split_from(ts, 1, <<>>, <<>>)

last(seq) == seq[Len(seq)]

pop(seq) == SubSeq(seq, 1, Len(seq) - 1)

\* The state of convert_expr_posfix after a step, or its early return.
ConvOk(op_stack, rpn_expr) ==
  [st |-> "ok", op_stack |-> op_stack, rpn_expr |-> rpn_expr, msg |-> ""]

ConvErr(m) == [st |-> "err", op_stack |-> <<>>, rpn_expr |-> <<>>, msg |-> m]

ConvPanic(m) == [st |-> "panic", op_stack |-> <<>>, rpn_expr |-> <<>>, msg |-> m]

\* The while loop of the Operator arm popping operators of higher precedence only.
RECURSIVE pop_operators_strict(_, _, _, _)
pop_operators_strict(op_stack, rpn_expr, prec, assoc) ==
  IF Len(op_stack) = 0 THEN ConvOk(op_stack, rpn_expr)
  ELSE IF last(op_stack).type # "Operator" THEN ConvOk(op_stack, rpn_expr)
  ELSE IF last(op_stack).name \notin DOMAIN PRECEDENCE_TABLE THEN ConvPanic("invalid key")
  ELSE IF PRECEDENCE_TABLE[last(op_stack).name].prec > prec /\ assoc = "Left"
  THEN pop_operators_strict(pop(op_stack), Append(rpn_expr, last(op_stack)), prec, assoc)
  ELSE ConvOk(op_stack, rpn_expr)

\* The while loop of the Operator arm: pop operators of no-lower precedence
\* while the arriving operator is left-associative.
RECURSIVE pop_operators(_, _, _, _)
pop_operators(op_stack, rpn_expr, prec, assoc) ==
  IF Len(op_stack) = 0 THEN ConvOk(op_stack, rpn_expr)
  ELSE IF last(op_stack).type # "Operator" THEN ConvOk(op_stack, rpn_expr)
  ELSE IF last(op_stack).name \notin DOMAIN PRECEDENCE_TABLE THEN ConvPanic("invalid key")
  ELSE IF PRECEDENCE_TABLE[last(op_stack).name].prec >= prec /\ assoc = "Left"
  THEN pop_operators(pop(op_stack), Append(rpn_expr, last(op_stack)), prec, assoc)
  ELSE ConvOk(op_stack, rpn_expr)

operator_pushed(r, token) ==
  IF r.st = "ok" THEN ConvOk(Append(r.op_stack, token), r.rpn_expr) ELSE r

convert_operator(token, op_stack, rpn_expr) ==
  IF token.name \notin DOMAIN PRECEDENCE_TABLE THEN ConvPanic("invalid key")
  ELSE operator_pushed(pop_operators(op_stack, rpn_expr,
                                     PRECEDENCE_TABLE[token.name].prec,
                                     PRECEDENCE_TABLE[token.name].assoc), token)

\* The RParen arm without its loop: nothing is popped.
pop_to_lparen_skipped(op_stack, rpn_expr) == ConvOk(op_stack, rpn_expr)

\* The while loop of the RParen arm: pop to the output until a '(' is on top.
RECURSIVE pop_to_lparen(_, _)
pop_to_lparen(op_stack, rpn_expr) ==
  IF Len(op_stack) = 0 THEN ConvOk(op_stack, rpn_expr)
  ELSE IF is_lparen(last(op_stack)) THEN ConvOk(op_stack, rpn_expr)
  ELSE pop_to_lparen(pop(op_stack), Append(rpn_expr, last(op_stack)))

\* After the '(' is popped: a function identifier on top goes to the output.
function_popped(op_stack, rpn_expr) ==
  IF Len(op_stack) > 0 /\ last(op_stack).type = "Identifier"
  THEN ConvOk(pop(op_stack), Append(rpn_expr, last(op_stack)))
  ELSE ConvOk(op_stack, rpn_expr)

rparen_popped(r) ==
  IF Len(r.op_stack) = 0 \/ ~is_lparen(last(r.op_stack))
  THEN ConvErr("Encountered ')' without matching '('")
  ELSE function_popped(pop(r.op_stack), r.rpn_expr)

\* The Token::Identifier arm without its lookups: every identifier is pushed.
convert_identifier_unchecked(token, op_stack, rpn_expr) ==
  ConvOk(Append(op_stack, token), rpn_expr)

convert_identifier(token, op_stack, rpn_expr) ==
  IF get_constant(token.name).some
  THEN ConvOk(op_stack, Append(rpn_expr, PToken("Value", "", get_constant(token.name).v, token.at)))
  ELSE IF get_function(token.name).some
  THEN ConvOk(Append(op_stack, token), rpn_expr)
  ELSE ConvErr("Unknown identifier")

\* The body of the for loop of convert_expr_posfix for one token.
convert_step(token, op_stack, rpn_expr) ==
  CASE token.type = "Value" -> ConvOk(op_stack, Append(rpn_expr, token))
    [] token.type = "Identifier" -> convert_identifier(token, op_stack, rpn_expr)
    [] token.type = "Operator" -> convert_operator(token, op_stack, rpn_expr)
    [] token.type = "LParen" -> ConvOk(Append(op_stack, token), rpn_expr)
    [] token.type = "RParen" -> rparen_popped(pop_to_lparen(op_stack, rpn_expr))
    [] OTHER -> ConvPanic("internal error: entered unreachable code")

\* The loop after the for loop: everything left on the stack goes to the output.
RECURSIVE convert_drain(_, _)
convert_drain(op_stack, rpn_expr) ==
  IF Len(op_stack) = 0 THEN ConvOk(op_stack, rpn_expr)
  ELSE IF is_lparen(last(op_stack)) THEN ConvErr("Unmatched ')'")
  ELSE convert_drain(pop(op_stack), Append(rpn_expr, last(op_stack)))

\* The state of evaluate_expr_postfix after a step, or its early return.
EvalOk(stack, nargs) == [st |-> "ok", stack |-> stack, nargs |-> nargs, msg |-> ""]

EvalErr(m) == [st |-> "err", stack |-> <<>>, nargs |-> 0, msg |-> m]

EvalPanic(m) == [st |-> "panic", stack |-> <<>>, nargs |-> 0, msg |-> m]

\* stack.push(func(..)): the value of an Ok result is pushed, an Err result is
\* returned, a panic unwinds.
result_pushed(r, stack, nargs) ==
  CASE r.st = "ok" -> EvalOk(Append(stack, r.val), nargs)
    [] r.st = "err" -> EvalErr(r.msg)
    [] OTHER -> EvalPanic(r.msg)

evaluate_unary(f, stack, nargs) ==
  IF nargs < 1 THEN EvalErr("Expected one argument")
  ELSE IF Len(stack) < 1 THEN EvalPanic("called Option::unwrap() on a None value")
  ELSE result_pushed(call_unary(f, last(stack)), pop(stack), nargs)

\* The Function::Binary arm without its test of nargs.
evaluate_binary_unchecked(f, stack, nargs, bd) ==
  IF Len(stack) < 2 THEN EvalPanic("called Option::unwrap() on a None value")
  ELSE result_pushed(call_binary(f, last(pop(stack)), last(stack), bd),
                     pop(pop(stack)), nargs - 1)

evaluate_binary(f, stack, nargs, bd) ==
  IF nargs < 2 THEN EvalErr("Expected two arguments")
  ELSE IF Len(stack) < 2 THEN EvalPanic("called Option::unwrap() on a None value")
  ELSE result_pushed(call_binary(f, last(pop(stack)), last(stack), bd),
                     pop(pop(stack)), nargs - 1)

evaluate_function(func, stack, nargs, bd) ==
  IF ~func.some THEN EvalPanic("called Option::unwrap() on a None value")
  ELSE IF FUNC_TABLE[func.v] = "Unary" THEN evaluate_unary(func.v, stack, nargs)
  ELSE evaluate_binary(func.v, stack, nargs, bd)

\* The body of the for loop of evaluate_expr_postfix for one token.
evaluate_step(token, stack, nargs, bd) ==
  CASE token.type = "Value" -> EvalOk(Append(stack, token.value), nargs + 1)
    [] token.type \in {"Identifier", "Operator"} ->
         evaluate_function(get_function(token.name), stack, nargs, bd)
    [] OTHER -> EvalPanic("internal error: entered unreachable code")

\* ------------------------------------------------------------------------
\* Inputs
\* ------------------------------------------------------------------------

\* Every program over Alphabet of at most MaxLen bytes is explored.
Alphabet == {"1", "0", "+", "/", "(", ")", " ", "\n", "f"}

ShortPrograms == UNION {[1..n -> Alphabet] : n \in 0..MaxLen}

\* The bytes of an operator symbol.
op_chars(op) ==
  CASE op = "==" -> <<"=", "=">>
    [] op = "!=" -> <<"!", "=">>
    [] op = ">=" -> <<">", "=">>
    [] op = "<=" -> <<"<", "=">>
    [] op = "<<" -> <<"<", "<">>
    [] op = ">>" -> <<">", ">">>
    [] op = "&&" -> <<"&", "&">>
    [] op = "||" -> <<"|", "|">>
    [] OTHER -> <<op>>

\* 1 op1 2 op2 3, (1 op1 2) op2 3 and 1 op1 (2 op2 3) for all binary operators.
Infix(op1, op2) == <<"1">> \o op_chars(op1) \o <<"2">> \o op_chars(op2) \o <<"3">>

ParenLeft(op1, op2) ==
  <<"(", "1">> \o op_chars(op1) \o <<"2", ")">> \o op_chars(op2) \o <<"3">>

ParenRight(op1, op2) ==
  <<"1">> \o op_chars(op1) \o <<"(", "2">> \o op_chars(op2) \o <<"3", ")">>

InfixPrograms ==
  {Infix(op1, op2) : op1 \in BinaryNames, op2 \in BinaryNames}
    \cup {ParenLeft(op1, op2) : op1 \in BinaryNames, op2 \in BinaryNames}
    \cup {ParenRight(op1, op2) : op1 \in BinaryNames, op2 \in BinaryNames}

\* Single expressions of interest, multi-byte characters included.
FixedPrograms ==
  { <<"1", " ", "+", " ", "2", " ", "*", " ", "3">>,
    <<"(", "1", " ", "+", " ", "2", ")", " ", "*", " ", "3">>,
    <<"(", "1", " ", "+", " ", "2">>,
    <<"1", " ", "+", " ", "2", ")">>,
    <<"s", "q", "r", "t", "(", "4", ")", " ", "+", " ", "1">>,
    <<"s", "q", "r", "t", "(", "4", ")", "*", "2">>,
    <<"2", "*", "s", "q", "r", "t", "(", "4", ")">>,
    <<"a", "b", "s", "(", "1", "-", "3", ")", "*", "2">>,
    <<"1", "*", "2", "+", "(", "4", "-", "3", ")">>,
    <<"f", "o", "o", "(", "1", ")">>,
    <<"1", "!", "f", "o", "o">>,
    <<"1", " ", "1", "\n", "f", "o", "o">>,
    <<"1", "\n", "2", ".">>,
    <<"-", "+", "1">>,
    <<"1", "*", "-", "+", "2">>,
    <<"K", "i", "B">>,
    <<"U", "8", "_", "M", "A", "X">>,
    <<"U", "_", "M", "A", "X">>,
    <<"N", "A", "N">>,
    <<"+", "xC3", "xA9">>,
    <<"xC3", "xA9">>,
    <<"xE2", "x82", "xAC">>,
    <<"1", "+", "1", "xE2", "x82", "xAC">>,
    <<"@">>,
    <<"1", "@">>,
    <<"-", "5">>,
    <<"-", "2", "*", "3">>,
    <<"2", "*", "-", "3">>,
    <<"!", "1", "+", "2">>,
    <<"1", "!">>,
    <<"(", "1", "!">>,
    <<"1", "!", ")">>,
    <<"1", " ", "1", "\n", "(", "1">>,
    <<"1", "/", "0", ".", "5">>,
    <<"1", "%", "0", ".", "5">>,
    <<"(", "1", ">", "0", ")", "/", "2", "5", "6">>,
    <<"(", "1", ">", "0", ")", "%", "2", "5", "6">>,
    <<"1", ".", "5", "/", "0">>,
    <<"1", ".", "5", "-", "1">>,
    <<"7", "/", "2">>,
    <<"7", "%", "2">>,
    <<"1", "\n", "(", ")">>,
    <<"(", ")", "\n", "(", "(", ")", ")", "\n">>,
    <<"2", ".">>,
    <<".", "5">>,
    <<"2", ".", "5">>,
    <<"u", "3", "2", "(", "1", ")">>,
    <<"l", "o", "g", "2">>,
    <<"i", "8">>,
    <<"s", "q", "r", "t">>,
    <<"0", "x", "1", "f">>,
    <<"0", "b", "1", "0", "+", "1">>,
    <<"0", "o", "7">>,
    <<"0", "x">>,
    <<"$", "1">>,
    <<"$", "1", "0", "+", "1">> }

Programs == ShortPrograms \cup InfixPrograms \cup FixedPrograms

\* ------------------------------------------------------------------------
\* The run of main on one program: tokenize, then parse
\* ------------------------------------------------------------------------

VARIABLES
  program,   \* the input bytes
  build,     \* the build profile of the binary
  pc,        \* "tokenize", "parse", "convert", "evaluate", "done"
  i,         \* tokenize: the scan index
  tokens,    \* tokenize: the tokens pushed so far
  line,      \* parse: the ordinal of the current expression
  pos,       \* convert, evaluate: the ordinal of the next token
  op_stack,  \* convert_expr_posfix: the operator stack
  rpn_expr,  \* convert_expr_posfix: the output; evaluate_expr_postfix: the input
  stack,     \* evaluate_expr_postfix: the value stack
  nargs,     \* evaluate_expr_postfix: the argument counter
  values,    \* parse: the values of the lines evaluated so far
  result,    \* how the run ended
  call,      \* the last operation applied outside a run, if any
  buffer     \* the history buffer

vars ==
  <<program, build, pc, i, tokens, line, pos, op_stack, rpn_expr, stack, nargs,
    values, result, call, buffer>>

\* An operation f applied to the Number self, with the operand rhs or the
\* width w where it takes one, and its outcome out.
Call(f, self, rhs, w, out) == [f |-> f, self |-> self, rhs |-> rhs, w |-> w, out |-> out]

no_call == Call("", no_number, no_number, "U64", Ok(no_number))

\* ------------------------------------------------------------------------
\* The history buffer (buffer.rs)
\* ------------------------------------------------------------------------

\* struct Buffer; contents is indexed from 1 here, from 0 in the code.
Buffer(contents, max_size, size) == [contents |-> contents, max_size |-> max_size, size |-> size]

no_buffer == Buffer(<<>>, 0, 0)

\* Value::Integer(0, Width::U64).
zero_value == new_integer(u64_zero, "U64")

\* The loop of Buffer::create over the lines of the file from line k on; a line
\* is what parse_line made of it, Some(value) or None.
RECURSIVE create_from(_, _, _, _)
create_from(lines, k, entries, max_size) ==
  IF k > Len(lines) \/ Len(entries) >= max_size THEN entries
  ELSE IF lines[k].some THEN create_from(lines, k + 1, Append(entries, lines[k].v), max_size)
  ELSE create_from(lines, k + 1, entries, max_size)

\* Buffer::create: the buffer read from a file of the given lines, or the empty
\* buffer when the file cannot be read.
create(max_size, readable, lines) ==
  IF ~readable THEN Buffer(<<>>, max_size, 0)
  ELSE Buffer(create_from(lines, 1, <<>>, max_size), max_size,
              Len(create_from(lines, 1, <<>>, max_size)))

\* slice::rotate_left(1) of a non-empty sequence.
rotate_left(seq) == Tail(seq) \o <<Head(seq)>>

\* slice::rotate_right(1) of a non-empty sequence.
rotate_right(seq) == <<seq[Len(seq)]>> \o SubSeq(seq, 1, Len(seq) - 1)

\* Buffer::add: the buffer afterwards, or the panic of rotate_right on an empty
\* vector.
add(self, value) ==
  IF self.size < self.max_size
  THEN Ok(Buffer(<<value>> \o Tail(rotate_right(Append(self.contents, zero_value))),
                 self.max_size, self.size + 1))
  ELSE IF self.contents = <<>> THEN Panic("assertion failed: k <= self.len()")
  ELSE Ok(Buffer(<<value>> \o Tail(rotate_right(self.contents)), self.max_size, self.size))

\* Buffer::get(i), i counted from 0 as in the code.
get(self, idx) ==
  IF idx > self.size THEN Ok(zero_value)
  ELSE IF idx >= Len(self.contents) THEN Panic("index out of bounds")
  ELSE Ok(self.contents[idx + 1])

\* The outcome of the run: none yet, a value returned by parse, an Err returned
\* by tokenize or parse, or a panic in one of them.
Outcome(st, stage, val, msg) == [st |-> st, stage |-> stage, val |-> val, msg |-> msg]

\* The expressions parse iterates over, and the current one.
exprs == split(parser_tokens(tokens))

expr == exprs[line]

Init ==
  /\ program \in Programs
  /\ build \in Builds
  /\ pc = "tokenize"
  /\ i = 0
  /\ tokens = <<>>
  /\ line = 1
  /\ pos = 1
  /\ op_stack = <<>>
  /\ rpn_expr = <<>>
  /\ stack = <<>>
  /\ nargs = 0
  /\ values = <<>>
  /\ result = Outcome("none", "", no_value, "")
  /\ call = no_call
  /\ buffer = no_buffer

\* The run ends with the given outcome.
Finish(o) ==
  /\ pc' = "done"
  /\ result' = o

tokenize_next(r) ==
  IF r.st = "ok"
  THEN /\ i' = r.i
       /\ tokens' = (IF r.push THEN push_token(tokens, r.token) ELSE tokens)
       /\ UNCHANGED <<pc, result>>
  ELSE /\ Finish(Outcome(r.st, "tokenize", no_value, r.msg))
       /\ UNCHANGED <<i, tokens>>

\* One iteration of the while loop of tokenize.
TokenizeStep ==
  /\ pc = "tokenize"
  /\ i < Len(program)
  /\ tokenize_next(tokenize_step(program, i, tokens))
  /\ UNCHANGED <<buffer, call, program, build, line, pos, op_stack, rpn_expr, stack, nargs, values>>

\* tokenize returns Ok(tokens) and main hands the tokens to parse.
TokenizeReturn ==
  /\ pc = "tokenize"
  /\ i >= Len(program)
  /\ pc' = "parse"
  /\ line' = 1
  /\ values' = <<>>
  /\ UNCHANGED <<buffer, call, program, build, i, tokens, pos, op_stack, rpn_expr, stack, nargs, result>>

\* parse takes the next expression: an empty one is skipped, any other one is
\* handed to convert_expr_posfix.
ParseExpr ==
  /\ pc = "parse"
  /\ line <= Len(exprs)
  /\ IF Len(expr) = 0
     THEN /\ line' = line + 1
          /\ UNCHANGED <<pc, pos, op_stack, rpn_expr>>
     ELSE /\ pc' = "convert"
          /\ pos' = 1
          /\ op_stack' = <<>>
          /\ rpn_expr' = <<>>
          /\ UNCHANGED line
  /\ UNCHANGED <<buffer, call, program, build, i, tokens, stack, nargs, values, result>>

\* parse returns the last value, or Integer(0, U64) when there is none.
ParseReturn ==
  /\ pc = "parse"
  /\ line > Len(exprs)
  /\ Finish(Outcome("ok", "parse",
                    IF Len(values) > 0 THEN last(values)
                    ELSE new_raw(new_integer(u64_zero, "U64")), ""))
  /\ UNCHANGED <<buffer, call, program, build, i, tokens, line, pos, op_stack, rpn_expr, stack, nargs, values>>

convert_next(r) ==
  IF r.st = "ok"
  THEN /\ op_stack' = r.op_stack
       /\ rpn_expr' = r.rpn_expr
       /\ pos' = pos + 1
       /\ UNCHANGED <<pc, result>>
  ELSE /\ Finish(Outcome(r.st, "parse", no_value, r.msg))
       /\ UNCHANGED <<op_stack, rpn_expr, pos>>

\* One iteration of the for loop of convert_expr_posfix.
ConvertStep ==
  /\ pc = "convert"
  /\ pos <= Len(expr)
  /\ convert_next(convert_step(expr[pos], op_stack, rpn_expr))
  /\ UNCHANGED <<buffer, call, program, build, i, tokens, line, stack, nargs, values>>

convert_return(r) ==
  IF r.st # "ok"
  THEN /\ Finish(Outcome(r.st, "parse", no_value, r.msg))
       /\ UNCHANGED <<op_stack, rpn_expr, pos, line, stack, nargs>>
  ELSE IF Len(r.rpn_expr) = 0
  THEN /\ pc' = "parse"
       /\ line' = line + 1
       /\ op_stack' = r.op_stack
       /\ rpn_expr' = r.rpn_expr
       /\ UNCHANGED <<pos, stack, nargs, result>>
  ELSE /\ pc' = "evaluate"
       /\ pos' = 1
       /\ op_stack' = r.op_stack
       /\ rpn_expr' = r.rpn_expr
       /\ stack' = <<>>
       /\ nargs' = 0
       /\ UNCHANGED <<line, result>>

\* The end of convert_expr_posfix: the stack is drained; parse skips an empty
\* output and hands any other one to evaluate_expr_postfix.
ConvertReturn ==
  /\ pc = "convert"
  /\ pos > Len(expr)
  /\ convert_return(convert_drain(op_stack, rpn_expr))
  /\ UNCHANGED <<buffer, call, program, build, i, tokens, values>>

evaluate_next(r) ==
  IF r.st = "ok"
  THEN /\ stack' = r.stack
       /\ nargs' = r.nargs
       /\ pos' = pos + 1
       /\ UNCHANGED <<pc, result>>
  ELSE /\ Finish(Outcome(r.st, "parse", no_value, r.msg))
       /\ UNCHANGED <<stack, nargs, pos>>

\* One iteration of the for loop of evaluate_expr_postfix.
EvaluateStep ==
  /\ pc = "evaluate"
  /\ pos <= Len(rpn_expr)
  /\ evaluate_next(evaluate_step(rpn_expr[pos], stack, nargs, build))
  /\ UNCHANGED <<buffer, call, program, build, i, tokens, line, op_stack, rpn_expr, values>>

\* The end of evaluate_expr_postfix: one value on the stack is returned and
\* parse pushes it; any other stack panics. An empty expression, for which the
\* loop has no iteration, panics at once.
EvaluateReturn ==
  /\ pc = "evaluate"
  /\ pos > Len(rpn_expr)
  /\ IF Len(rpn_expr) = 0
     THEN /\ Finish(Outcome("panic", "parse", no_value, "empty expression"))
          /\ UNCHANGED <<values, line>>
     ELSE IF Len(stack) # 1
     THEN /\ Finish(Outcome("panic", "parse", no_value, "unexpected stack state"))
          /\ UNCHANGED <<values, line>>
     ELSE /\ values' = Append(values, stack[1])
          /\ line' = line + 1
          /\ pc' = "parse"
          /\ UNCHANGED result
  /\ UNCHANGED <<buffer, call, program, build, i, tokens, pos, op_stack, rpn_expr, stack, nargs>>

Next ==
  \/ TokenizeStep
  \/ TokenizeReturn
  \/ ParseExpr
  \/ ParseReturn
  \/ ConvertStep
  \/ ConvertReturn
  \/ EvaluateStep
  \/ EvaluateReturn

Spec == Init /\ [][Next]_vars

\* ------------------------------------------------------------------------
\* The operations of Number applied to numbers drawn from a bounded set
\* ------------------------------------------------------------------------

\* The integers 0..MaxSmall are payloads at every width.
MaxSmall == 3

\* Payloads: the small integers, and the all-ones and sign-bit patterns of every
\* width (sign-extended, so that a wider width holds them as small negatives).
Payloads ==
  {u64_from(n) : n \in 0..MaxSmall}
    \cup {as_mask(w) : w \in Width}
    \cup {width_min(w) : w \in Width}

Integers == {new_integer(v, w) : v \in Payloads, w \in Width}

Floats ==
  {f64_fin(q) : q \in {0, 500, 1500, -1500, 2 * FScale, 3 * FScale}}
    \cup {f64_nan, float_of("pinf", 0), float_of("ninf", 0)}

Numbers == Integers \cup Floats

\* The entries of FUNC_TABLE whose closures the fixed-point form covers.
UnaryFunctions ==
  {"+u", "-u", "!u", "~u", "u64", "u32", "u16", "u8", "i64", "i32", "i16", "i8", "f64",
   "abs", "floor", "ceil", "round", "sqrt"}

\* The methods of Number that no entry of FUNC_TABLE calls.
Methods == {"pow", "to_signed", "to_unsigned", "to_float", "to_width"}

\* The Result over Value of a closure as a Result over Number.
number_of(r) == IF r.st = "ok" THEN Ok(r.val.number) ELSE r

method(m, self, rhs, w, b) ==
  CASE m = "pow" -> pow(self, rhs, b)
    [] m = "to_signed" -> Ok(to_signed(self))
    [] m = "to_unsigned" -> to_unsigned(self, b)
    [] m = "to_float" -> Ok(to_float(self))
    [] m = "to_width" -> Ok(to_width(self, w))

NumberInit ==
  /\ program = <<>>
  /\ build \in Builds
  /\ pc = "number"
  /\ i = 0
  /\ tokens = <<>>
  /\ line = 1
  /\ pos = 1
  /\ op_stack = <<>>
  /\ rpn_expr = <<>>
  /\ stack = <<>>
  /\ nargs = 0
  /\ values = <<>>
  /\ result = Outcome("none", "", no_value, "")
  /\ \E n \in Numbers : call = Call("new", no_number, no_number, n.width, Ok(n))
  /\ buffer = no_buffer

\* The operand sets: an operand has the width of the number itself, the width
\* U8 or I64, or is a float.
Operands(self) ==
  {n \in Numbers : n.kind = "Float" \/ n.width \in {self.width, "U8", "I64"}}

\* An operation without an operand is applied to a number that was constructed
\* or that such an operation returned, while it is a number of the bounded set.
self_ready ==
  /\ pc = "number"
  /\ call.f \in {"new"} \cup UnaryFunctions \cup (Methods \ {"pow"})
  /\ call.out.st = "ok"
  /\ call.out.val \in Numbers

\* An operation with an operand is applied to a constructed number.
self_new == pc = "number" /\ call.f = "new"

\* A unary entry of FUNC_TABLE is called on the number.
UnaryFunction ==
  /\ self_ready
  /\ \E f \in UnaryFunctions :
       call' = Call(f, call.out.val, no_number, "U64",
                    number_of(call_unary(f, new_raw(call.out.val))))
  /\ UNCHANGED <<buffer, program, build, pc, i, tokens, line, pos, op_stack, rpn_expr,
                 stack, nargs, values, result>>

\* A binary entry of FUNC_TABLE is called on the number and an operand.
BinaryFunction ==
  /\ self_new
  /\ \E f \in BinaryNames, rhs \in Operands(call.out.val) :
       call' = Call(f, call.out.val, rhs, "U64",
                    number_of(call_binary(f, new_raw(call.out.val), new_raw(rhs), build)))
  /\ UNCHANGED <<buffer, program, build, pc, i, tokens, line, pos, op_stack, rpn_expr,
                 stack, nargs, values, result>>

\* A method of Number is called on the number.
Method ==
  /\ \/ /\ self_new
        /\ \E rhs \in Operands(call.out.val) :
             call' = Call("pow", call.out.val, rhs, "U64",
                          method("pow", call.out.val, rhs, "U64", build))
     \/ /\ self_ready
        /\ \E w \in Width :
             call' = Call("to_width", call.out.val, no_number, w,
                          method("to_width", call.out.val, no_number, w, build))
     \/ /\ self_ready
        /\ \E m \in {"to_signed", "to_unsigned", "to_float"} :
             call' = Call(m, call.out.val, no_number, "U64",
                          method(m, call.out.val, no_number, "U64", build))
  /\ UNCHANGED <<buffer, program, build, pc, i, tokens, line, pos, op_stack, rpn_expr,
                 stack, nargs, values, result>>

NumberNext ==
  \/ UnaryFunction
  \/ BinaryFunction
  \/ Method

NumberSpec == NumberInit /\ [][NumberNext]_vars

\* ------------------------------------------------------------------------
\* Unit::convert on numbers drawn from bounded sets
\* ------------------------------------------------------------------------

UnitCall(f, self, from, to, out) ==
  [f |-> f, self |-> self, from |-> from, to |-> to, out |-> out]

UnitInit ==
  /\ program = <<>>
  /\ build \in Builds
  /\ pc = "unit"
  /\ i = 0
  /\ tokens = <<>>
  /\ line = 1
  /\ pos = 1
  /\ op_stack = <<>>
  /\ rpn_expr = <<>>
  /\ stack = <<>>
  /\ nargs = 0
  /\ values = <<>>
  /\ result = Outcome("none", "", no_value, "")
  /\ \E n \in Numbers : call = UnitCall("new", n, "Raw", "Raw", Ok(Some(n)))
  /\ buffer = no_buffer

\* Unit::convert is called on the number with a pair of units.
Convert ==
  /\ pc = "unit"
  /\ call.f = "new"
  /\ \E from \in Unit, to \in Unit :
       call' = UnitCall("convert", call.self, from, to, convert(call.self, from, to, build))
  /\ UNCHANGED <<buffer, program, build, pc, i, tokens, line, pos, op_stack, rpn_expr,
                 stack, nargs, values, result>>

UnitNext == Convert

UnitSpec == UnitInit /\ [][UnitNext]_vars

\* ------------------------------------------------------------------------
\* Buffer::create, add and get on bounded files, capacities and values
\* ------------------------------------------------------------------------

MaxSize == 3

MaxLines == 2

MaxAdds == 4

MaxValue == 2

\* The values held by files and passed to add; the zero value is one of them.
BufferValues == {new_integer(u64_from(k), "U64") : k \in 0..MaxValue}

\* What parse_line makes of a line: Some(value), or None (carried here with a
\* value that is never read).
Lines == [some : BOOLEAN, v : BufferValues]

Files == UNION {[1..n -> Lines] : n \in 0..MaxLines}

\* A call on the buffer: arg is the value added or 0, idx the index read or 0,
\* out the outcome; loaded is the contents create left and added the values
\* added since, the newest first (both kept for the properties only).
BufferCall(f, arg, idx, out, loaded, added) ==
  [f |-> f, arg |-> arg, idx |-> idx, out |-> out, loaded |-> loaded, added |-> added]

BufferInit ==
  /\ program = <<>>
  /\ build \in Builds
  /\ pc = "buffer"
  /\ i = 0
  /\ tokens = <<>>
  /\ line = 1
  /\ pos = 1
  /\ op_stack = <<>>
  /\ rpn_expr = <<>>
  /\ stack = <<>>
  /\ nargs = 0
  /\ values = <<>>
  /\ result = Outcome("none", "", no_value, "")
  /\ \E max_size \in 0..MaxSize, readable \in BOOLEAN, lines \in Files :
       /\ buffer = create(max_size, readable, lines)
       /\ call = BufferCall("create", zero_value, 0, Ok(zero_value),
                            create(max_size, readable, lines).contents, <<>>)

\* The process is alive: no call on the buffer has panicked.
buffer_alive == pc = "buffer" /\ call.out.st = "ok"

\* Buffer::add is called with a value.
Add ==
  /\ buffer_alive
  /\ Len(call.added) < MaxAdds
  /\ \E value \in BufferValues :
       /\ buffer' = (IF add(buffer, value).st = "ok" THEN add(buffer, value).val ELSE buffer)
       /\ call' = BufferCall("add", value, 0,
                             (IF add(buffer, value).st = "ok" THEN Ok(zero_value)
                              ELSE add(buffer, value)),
                             call.loaded, <<value>> \o call.added)
  /\ UNCHANGED <<program, build, pc, i, tokens, line, pos, op_stack, rpn_expr, stack,
                 nargs, values, result>>

\* Buffer::get is called with an index.
Get ==
  /\ buffer_alive
  /\ \E idx \in 0..(MaxSize + 1) :
       call' = BufferCall("get", zero_value, idx, get(buffer, idx), call.loaded, call.added)
  /\ UNCHANGED <<buffer, program, build, pc, i, tokens, line, pos, op_stack, rpn_expr,
                 stack, nargs, values, result>>

BufferNext ==
  \/ Add
  \/ Get

BufferSpec == BufferInit /\ [][BufferNext]_vars

\* ------------------------------------------------------------------------
\* Properties
\* ------------------------------------------------------------------------

\* The fixed-point form of floats covers every number the runs compute.
ModelCovers ==
  /\ \A k \in DOMAIN tokens : ~is_unmodelled(tokens[k].num)
  /\ \A k \in DOMAIN stack : ~is_unmodelled(stack[k].number)
  /\ \A k \in DOMAIN values : ~is_unmodelled(values[k].number)
  /\ ~is_unmodelled(result.val.number)

\* The raw value Integer(n, U64) and the raw value Float(q / FScale).
int_value(n) == new_raw(new_integer(u64_from(n), "U64"))

float_value(q) == new_raw(f64_fin(q))

\* convert_expr_posfix has returned Ok with a non-empty output.
RpnComplete == pc = "evaluate" /\ pos = 1

\* The symbols of the postfix output, "" for a value.
rpn_names == [k \in DOMAIN rpn_expr |-> rpn_expr[k].name]

\* The run has ended with parse returning the value v.
Returned(v) == pc = "done" /\ result.st = "ok" /\ result.stage = "parse" /\ result.val = v

\* C1: for every token sequence tokenize produces, parse ends by returning one
\* Value or one error; it never panics, also when the postfix form leaves a
\* number of values other than one on the evaluation stack.
C1_ParseNeverPanics ==
  (pc = "done" /\ result.stage = "parse") => result.st \in {"ok", "err"}

\* A byte that starts none of the lexemes tokenize recognises.
starts_no_lexeme(c) ==
  /\ c \notin digit_chars \cup ident_chars \cup {".", "$", "(", ")", "\n", " ", "\t"}
  /\ \A k \in DOMAIN OPERATORS : op_chars(OPERATORS[k])[1] # c

\* C2: tokenize returns an Err for every input that contains a character
\* starting none of the recognised lexemes, and for every input it returns Ok or
\* Err without panicking, also when a multi-byte character follows an operator
\* character or is cut by the two-byte operator window.
C2_TokenizeNeverPanics ==
  /\ result.stage = "tokenize" => result.st = "err"
  /\ (\E k \in DOMAIN program : starts_no_lexeme(program[k]))
       => (pc \in {"tokenize", "done"} /\ result.stage # "parse")

\* The levels of the binary operators, highest first.
C3_Levels ==
  << {"*", "/", "%"}, {"+", "-"}, {"<<", ">>"}, {">", "<", ">=", "<="},
     {"==", "!="}, {"&"}, {"^"}, {"|"}, {"&&", "||"} >>

C3_level(op) == CHOOSE k \in DOMAIN C3_Levels : op \in C3_Levels[k]

C3_then_right(r, op2, bd) ==
  IF r.st = "ok" THEN call_binary(op2, r.val, int_value(3), bd) ELSE r

C3_then_left(op1, r, bd) ==
  IF r.st = "ok" THEN call_binary(op1, int_value(1), r.val, bd) ELSE r

\* 1 op1 2 op2 3 with the operator of the higher level applied first.
C3_higher_first(op1, op2, bd) ==
  IF C3_level(op1) < C3_level(op2)
  THEN C3_then_right(call_binary(op1, int_value(1), int_value(2), bd), op2, bd)
  ELSE C3_then_left(op1, call_binary(op2, int_value(2), int_value(3), bd), bd)

C3_same_outcome(o, r) ==
  /\ o.st = r.st
  /\ o.st = "ok" => o.val = r.val
  /\ o.st # "ok" => o.msg = r.msg

\* C3: in a op1 b op2 c with the two binary operators at different levels of
\* the table, the operator of the higher level is applied first, whichever
\* comes first: the run ends as the evaluation in that order ends, 1 + 2 * 3
\* gives Integer(7, U64), and the unary operators sit above every binary one
\* and are applied before it.
C3_HigherLevelFirst ==
  /\ (pc = "done" /\ Len(program) \in 5..7 /\ program[1] = "1") =>
       \A op1 \in BinaryNames, op2 \in BinaryNames :
         (C3_level(op1) # C3_level(op2) /\ program = Infix(op1, op2)) =>
           C3_same_outcome(result, C3_higher_first(op1, op2, build))
  /\ (pc = "done" /\ program = <<"1", " ", "+", " ", "2", " ", "*", " ", "3">>) =>
       Returned(int_value(7))
  /\ \A u \in {"+u", "-u", "!u", "~u"}, b \in BinaryNames :
       PRECEDENCE_TABLE[u].prec > PRECEDENCE_TABLE[b].prec
  /\ (RpnComplete /\ program = <<"-", "2", "*", "3">>) => rpn_names = <<"", "-u", "", "*">>
  /\ (RpnComplete /\ program = <<"2", "*", "-", "3">>) => rpn_names = <<"", "", "-u", "*">>
  /\ (RpnComplete /\ program = <<"!", "1", "+", "2">>) => rpn_names = <<"", "!u", "", "+">>

\* 1 + 2 * 3 has been evaluated to 7, and a run with the lower operator first in
\* the text and one with it second have ended.
C3_Witness ==
  /\ program = <<"1", " ", "+", " ", "2", " ", "*", " ", "3">>
  /\ Returned(int_value(7))

\* The depth of parentheses after the first m tokens of the expression e.
paren_depth(e, m) ==
  Cardinality({n \in 1..m : e[n].type = "LParen"})
    - Cardinality({n \in 1..m : e[n].type = "RParen"})

\* e[k] is the ')' matching the '(' e[j].
matching(e, j, k) ==
  /\ j < k
  /\ e[j].type = "LParen"
  /\ e[k].type = "RParen"
  /\ paren_depth(e, k) = paren_depth(e, j) - 1
  /\ \A m \in j..(k - 1) : paren_depth(e, m) >= paren_depth(e, j)

\* The token of the output at x comes from between e[j] and e[k]; the token at
\* y is an operator from outside the pair.
inside(e, j, k, x) == e[j].at < rpn_expr[x].at /\ rpn_expr[x].at < e[k].at

operator_inside(e, j, k, x) == rpn_expr[x].type = "Operator" /\ inside(e, j, k, x)

operator_outside(e, j, k, y) ==
  /\ rpn_expr[y].type = "Operator"
  /\ (rpn_expr[y].at < e[j].at \/ rpn_expr[y].at > e[k].at)

C5_CallBeforeFollowingOperator ==
  (pc = "done" /\ program = <<"s", "q", "r", "t", "(", "4", ")", " ", "+", " ", "1">>) =>
    Returned(float_value(3 * FScale))

\* The index of the last line break before byte m of p, 0 when there is none.
line_start(p, m) ==
  IF \E n \in 1..m : p[n] = "\n" THEN CHOOSE n \in 1..m : p[n] = "\n" /\ \A n2 \in (n + 1)..m : p[n2] # "\n"
  ELSE 0

\* The depth of parentheses of the line of byte m, after byte m.
line_depth(p, m) ==
  Cardinality({n \in (line_start(p, m) + 1)..m : p[n] = "("})
    - Cardinality({n \in (line_start(p, m) + 1)..m : p[n] = ")"})

\* Some '(' of p has no matching ')' on its line, or some ')' no matching '('.
unmatched(p) ==
  \E m \in 1..Len(p) :
    \/ line_depth(p, m) < 0
    \/ (m = Len(p) \/ p[m + 1] = "\n") /\ line_depth(p, m) > 0

\* C6: an expression in which some '(' has no matching ')' or some ')' no
\* matching '(' is rejected with an error and never yields a value.
C6_UnmatchedParenRejected ==
  (pc = "done" /\ unmatched(program)) => result.st = "err"

unknown_identifier(name) ==
  /\ name \notin DOMAIN CONST_TABLE
  /\ name \notin DOMAIN FUNC_TABLE
  /\ name \notin DOMAIN ALIAS_TABLE

\* C7: an identifier that is no registered constant, no registered function
\* and no alias of one makes parse return an error.
C7_UnknownIdentifierRejected ==
  (/\ pc = "done"
   /\ result.stage = "parse"
   /\ \E k \in DOMAIN tokens :
        tokens[k].type = "Identifier" /\ unknown_identifier(tokens[k].name)) =>
    result.st = "err"

\* Every line of p holds parentheses and blanks only, properly nested.
only_parens(p) ==
  /\ \A k \in DOMAIN p : p[k] \in {"(", ")", " ", "\t", "\n"}
  /\ ~unmatched(p)

\* C8: an input in which every line has an empty postfix form (no token, or
\* parentheses only) evaluates to Integer(0, U64).
C8_EmptyInputIsZero ==
  (pc = "done" /\ only_parens(program)) => Returned(int_value(0))

\* The input of two lines, () and (()), has been evaluated to 0.
C8_Witness ==
  /\ program = <<"(", ")", "\n", "(", "(", ")", ")", "\n">>
  /\ Returned(int_value(0))

\* The next step of the evaluation applies / or % to an integer left operand
\* and a right operand that is zero once narrowed to the width of the left one.
divides_by_zero ==
  /\ pc = "evaluate"
  /\ pos <= Len(rpn_expr)
  /\ rpn_expr[pos].type = "Operator"
  /\ rpn_expr[pos].name \in {"/", "%"}
  /\ Len(stack) >= 2
  /\ stack[Len(stack) - 1].number.kind = "Integer"
  /\ arithmetic_rhs(stack[Len(stack) - 1].number.width, stack[Len(stack)].number) = u64_zero

\* C9: / and % with an integer left operand and a right operand that is zero
\* after narrowing yield a reported error, no panic and no value.
C9_DivisionByZeroReported ==
  divides_by_zero => evaluate_step(rpn_expr[pos], stack, nargs, build).st = "err"

\* C10: + and - are tokenized as unary exactly when the token before them is
\* absent, an operator, a '(' or a line break, and as binary after a literal, a
\* reference, an identifier or a ')'.
C10_UnaryExactlyAfterOperator ==
  \A k \in DOMAIN tokens :
    tokens[k].name \in {"+", "-", "+u", "-u"} =>
      (tokens[k].type = "UnaryOp"
         <=> (k = 1 \/ tokens[k - 1].type \in {"UnaryOp", "BinaryOp", "LParen", "Newline"}))

\* C11: ! and ~ are tokenized as unary operators (!u, ~u) whatever the token
\* before them is; no binary operator token is ever emitted for either.
C11_BangTildeAlwaysUnary ==
  \A k \in DOMAIN tokens :
    tokens[k].name \in {"!", "~", "!u", "~u"} => tokens[k].type = "UnaryOp"

\* C12: -5 evaluates to a signed integer whose value is -5: the result has a
\* signed width and holds the two's-complement negation of 5 at that width.
C12_MinusFiveIsSigned ==
  (pc = "done" /\ program = <<"-", "5">>) =>
    /\ result.st = "ok"
    /\ result.val.number.kind = "Integer"
    /\ width_signed(result.val.number.width)
    /\ result.val.number.bits
         = mask(result.val.number.width, u64_wrapping_neg(u64_from(5)))

\* The program is one decimal literal: digits with at most one '.'.
decimal_literal(p) ==
  /\ \A k \in DOMAIN p : p[k] \in digit_chars \cup {"."}
  /\ \E k \in DOMAIN p : p[k] \in digit_chars
  /\ Cardinality({k \in DOMAIN p : p[k] = "."}) <= 1

\* C13: a decimal literal is one token, a Float exactly when it contains a
\* '.', and either side of the '.' may be empty: 2. is the Float 2.0 and .5 is
\* the Float 0.5, neither is an error.
C13_FloatIffPeriod ==
  (decimal_literal(program) /\ pc # "tokenize") =>
    /\ result.stage # "tokenize"
    /\ Len(tokens) = 1
    /\ tokens[1].type = (IF \E k \in DOMAIN program : program[k] = "." THEN "Float" ELSE "Integer")
    /\ program = <<"2", ".">> => tokens[1].num = f64_fin(2 * FScale)
    /\ program = <<".", "5">> => tokens[1].num = f64_fin(FScale \div 2)

\* The program is one identifier of the grammar [A-Za-z][A-Za-z0-9_]*.
identifier_string(p) ==
  /\ Len(p) >= 1
  /\ p[1] \in ident_chars \ {"_"}
  /\ \A k \in DOMAIN p : p[k] \in ident_chars \cup digit_chars

\* C14: every string [A-Za-z][A-Za-z0-9_]* is tokenized as one Identifier
\* token, digits after the first letter included, and u32(1) evaluates to
\* Integer(1, U32).
C14_IdentifierWithDigits ==
  /\ (identifier_string(program) /\ pc # "tokenize") =>
       /\ result.stage # "tokenize"
       /\ Len(tokens) = 1
       /\ tokens[1].type = "Identifier"
       /\ tokens[1].name = str_from(program, 1)
  /\ (pc = "done" /\ program = <<"u", "3", "2", "(", "1", ")">>) =>
       Returned(new_raw(new_integer(u64_from(1), "U32")))

\* A finite float truncated toward zero, as an integer of width w.
truncated(f, w) == new_integer(i64_from(int_sign(f.q) * (int_abs(f.q) \div FScale)), w)

\* An arithmetic operator has been applied and has returned a number.
arithmetic_applied ==
  /\ call.f \in {"+", "-", "*", "/", "%"}
  /\ call.out.st = "ok"

\* C15: the result of + - * / % takes the kind and width of the left operand:
\* Integer(w1) op Integer(w2) is an Integer of width w1, Integer(w) op Float is
\* the Integer of width w computed with the float truncated toward zero, Float
\* op Integer is a Float; u32(1) + 1 is Integer(2, U32), 3 * 1.5 is
\* Integer(3, U64) and 1.5 * 3 is the Float 4.5.
C15_LeftOperandDecides ==
  arithmetic_applied =>
    /\ call.out.val.kind = call.self.kind
    /\ call.self.kind = "Integer" => call.out.val.width = call.self.width
    /\ (call.self.kind = "Integer" /\ call.rhs.cls = "fin") =>
         call.out = impl_arithmetic_op(call.f, call.self,
                                       truncated(call.rhs, call.self.width), build)
    /\ (call.f = "+" /\ call.self = new_integer(u64_from(1), "U32")
          /\ call.rhs = new_integer(u64_from(1), "I64")) =>
         call.out.val = new_integer(u64_from(2), "U32")
    /\ (call.f = "*" /\ call.self = new_integer(u64_from(3), "I64")
          /\ call.rhs = f64_fin(1500)) =>
         call.out.val = new_integer(u64_from(3), "I64")
    /\ (call.f = "*" /\ call.self = f64_fin(1500)
          /\ call.rhs = new_integer(u64_from(3), "I64")) =>
         call.out.val = f64_fin(4500)

\* a op b modulo 2^64 for op in + - *.
wrapping(op, a, b) ==
  CASE op = "+" -> u64_add(a, b).bits
    [] op = "-" -> u64_sub(a, b).bits
    [] op = "*" -> u64_mul(a, b).bits

\* C16: for two integers of one width w, + - * return the result reduced
\* modulo 2^bits(w), and so does unary negation of an integer; none of them
\* panics or returns an error, whatever the operands and the build.
C16_WrapsSilently ==
  /\ (call.f \in {"+", "-", "*"} /\ call.self.kind = "Integer"
        /\ call.rhs.kind = "Integer" /\ call.rhs.width = call.self.width) =>
       call.out = Ok(new_integer(wrapping(call.f, call.self.bits, call.rhs.bits), call.self.width))
  /\ (call.f = "-u" /\ call.self.kind = "Integer") =>
       call.out = Ok(new_integer(u64_wrapping_neg(call.self.bits), call.self.width))

\* The last call has returned an integer.
integer_returned == call.out.st = "ok" /\ call.out.val.kind = "Integer"

\* C17: every Integer a constructor, a conversion, an arithmetic or bitwise
\* operator, a negation, not, abs, pow, to_signed, to_unsigned or to_width
\* returns has no bit above the bit-length of its width.
C17_PayloadMasked ==
  integer_returned =>
    \A k \in 1..8 : k > width_bytes(call.out.val.width) => call.out.val.bits[k] = 0

\* A product of two integers narrower than 64 bits that has bits above the
\* width has been stored.
C17_Witness ==
  /\ integer_returned
  /\ call.f = "*"
  /\ call.self.kind = "Integer"
  /\ call.rhs.kind = "Integer"
  /\ \E k \in 1..8 :
       /\ k > width_bytes(call.self.width)
       /\ wrapping("*", call.self.bits, arithmetic_rhs(call.self.width, call.rhs))[k] # 0

\* The name of the cast function for the width w.
cast_of(w) ==
  CASE w = "U64" -> "u64" [] w = "U32" -> "u32" [] w = "U16" -> "u16" [] w = "U8" -> "u8"
    [] w = "I64" -> "i64" [] w = "I32" -> "i32" [] w = "I16" -> "i16" [] w = "I8" -> "i8"

\* The cast function for w applied to the number x.
cast(w, x) == number_of(call_unary(cast_of(w), new_raw(x)))

\* The last call cast the integer call.self to the width w.
cast_applied(w) == call.f = cast_of(w) /\ call.self.kind = "Integer"

\* C18: for an integer x of width w0 and a width w at least as long, the cast
\* for w followed by the cast for w0 returns Integer(bits of x, w0). The first
\* conjunct looks at the state after the cast for w, the second at the state
\* after the cast back to w0.
C18_CastRoundTrip ==
  /\ \A w \in Width :
       (cast_applied(w) /\ width_bytes(w) >= width_bytes(call.self.width)) =>
         /\ call.out.st = "ok"
         /\ call.out.val.kind = "Integer"
         /\ call.out.val.width = w
         /\ cast(call.self.width, call.out.val) = Ok(call.self)
  /\ \A x \in Integers :
       (/\ cast_applied(x.width)
        /\ width_bytes(call.self.width) >= width_bytes(x.width)
        /\ cast(call.self.width, x) = Ok(call.self)) =>
         call.out = Ok(x)

\* The negative i8 value 0xFF went to u16 and has come back through the i8 cast.
C18_Witness ==
  /\ cast_applied("I8")
  /\ call.self = new_integer(mask("U16", as_mask("U64")), "U16")
  /\ cast("U16", new_integer(as_mask("U8"), "I8")) = Ok(call.self)
  /\ call.out = Ok(new_integer(as_mask("U8"), "I8"))

\* The comparison that gives for (b, a) what f gives for (a, b).
mirrored(f) == CASE f = "==" -> "==" [] f = "<" -> ">" [] f = ">" -> "<"

\* The last call compared an Integer with a Float, in either order.
mixed_comparison ==
  /\ call.f \in {"==", "<", ">"}
  /\ call.out.st = "ok"
  /\ {call.self.kind, call.rhs.kind} = {"Integer", "Float"}

\* C19: a comparison of an Integer with a Float, in either order, converts the
\* integer to floating point and leaves the float as it is, so (Integer n,
\* Float f) under ==, <, > gives what (Float f, Integer n) gives under the
\* mirrored comparison.
C19_MixedComparison ==
  mixed_comparison =>
    /\ call.out.val = number_from_bool(comparison(call.f, to_float(call.self), to_float(call.rhs)))
    /\ call.out = number_of(call_binary(mirrored(call.f), new_raw(call.rhs), new_raw(call.self), build))

\* The last call applied a bitwise operator to operands one of which is a Float.
bitwise_on_float ==
  /\ call.f \in {"&", "|", "^", "<<", ">>"}
  /\ "Float" \in {call.self.kind, call.rhs.kind}

\* C20: a bitwise operator given a Float operand returns NaN or fails; it never
\* returns an ordinary number.
C20_BitwiseOnFloat ==
  bitwise_on_float => (call.out.st # "ok" \/ call.out.val = new_float(f64_nan))

\* The last call returned the integer self reinterpreted: same stored bits,
\* same bit-length, signedness as given.
reinterpreted(signed) ==
  /\ integer_returned
  /\ call.out.val.bits = call.self.bits
  /\ width_bytes(call.out.val.width) = width_bytes(call.self.width)
  /\ width_signed(call.out.val.width) = signed

\* C21: to_signed and to_unsigned of an Integer return an Integer of the same
\* bit-length with the same stored bits; only the signedness of the width
\* changes (signed after to_signed, unsigned after to_unsigned).
C21_SignednessOnly ==
  /\ (call.f = "to_signed" /\ call.self.kind = "Integer") => reinterpreted(TRUE)
  /\ (call.f = "to_unsigned" /\ call.self.kind = "Integer") => reinterpreted(FALSE)

\* Unit::convert has been called.
convert_called == pc = "unit" /\ call.f = "convert"

\* One unit is a size unit and the other a temperature unit.
different_groups(from, to) ==
  \/ from \in SizeUnits /\ to \in TemperatureUnits
  \/ from \in TemperatureUnits /\ to \in SizeUnits

\* Unit::convert returned None.
no_result == call.out.st = "ok" /\ ~call.out.val.some

\* Unit::convert returned Some(number).
some_result == call.out.st = "ok" /\ call.out.val.some

\* C22: Unit::convert returns no result exactly when the two units are non-raw
\* and of different groups; in every other case it returns a number, and for
\* two size units the number it was given.
C22_ConvertDefined ==
  convert_called =>
    /\ no_result <=> different_groups(call.from, call.to)
    /\ ~different_groups(call.from, call.to) => some_result
    /\ (call.from \in SizeUnits /\ call.to \in SizeUnits) =>
         (some_result /\ call.out.val.v = call.self)

\* Buffer::get has been called.
get_called == pc = "buffer" /\ call.f = "get"

\* C23: Buffer::get with an index that addresses no stored entry (the entries
\* are at the indices 0 .. size - 1) returns Integer(0, U64) and does not panic.
C23_GetOutOfRangeIsZero ==
  (get_called /\ call.idx >= buffer.size) => call.out = Ok(zero_value)

\* The buffer started empty with room for at least one value.
started_empty == pc = "buffer" /\ call.loaded = <<>> /\ buffer.max_size >= 1

\* The number of values a buffer of this capacity holds after the adds made.
held == IF Len(call.added) < buffer.max_size THEN Len(call.added) ELSE buffer.max_size

\* C24: after n adds on a buffer of capacity max_size >= 1 that started empty,
\* the buffer holds the min(n, max_size) most recently added values, the newest
\* at index 0 and each later index the next older, and get reads them so.
C24_MostRecentFirst ==
  started_empty =>
    /\ buffer.size = held
    /\ buffer.contents = SubSeq(call.added, 1, held)
    /\ (call.f = "get" /\ call.idx < held) => call.out = Ok(call.added[call.idx + 1])

\* Three different values went into a buffer of capacity two: the oldest is gone.
C24_Witness ==
  /\ started_empty
  /\ call.f = "add"
  /\ buffer.max_size = 2
  /\ Len(call.added) = 3
  /\ call.added[1] # call.added[2]
  /\ call.added[3] \notin {call.added[1], call.added[2]}
  /\ buffer.contents = <<call.added[1], call.added[2]>>

\* C30: for every capacity, 0 included, every Buffer::add completes without a
\* panic, and size = contents.len() <= max_size after create and every add.
C30_AddNeverPanics ==
  pc = "buffer" =>
    /\ call.f = "add" => call.out.st = "ok"
    /\ buffer.size = Len(buffer.contents)
    /\ buffer.size <= buffer.max_size

\* The number of Newline tokens before the k-th token: the k-th token belongs
\* to the line after that many line ends.
newlines_before(k) == Cardinality({j \in 1..(k - 1) : tokens[j].type = "Newline"})

\* The n-th line has been parsed and evaluated to a value, skipped as empty, or
\* has ended the run with an error of parse.
line_ended(n) ==
  /\ pc # "tokenize"
  /\ \/ line > n
     \/ pc = "done" /\ result.stage # "tokenize" /\ line = n

\* C25: no token of a line after the first is produced before every earlier
\* line has been tokenized, parsed and evaluated to a value or an error.
C25_LineByLine ==
  \A k \in DOMAIN tokens :
    (tokens[k].type # "Newline" /\ newlines_before(k) >= 1) =>
      line_ended(newlines_before(k))

\* The loop of evaluate_expr_postfix is at a function of the given arity.
at_function(arity) ==
  /\ pc = "evaluate"
  /\ pos <= Len(rpn_expr)
  /\ rpn_expr[pos].type \in {"Identifier", "Operator"}
  /\ get_function(rpn_expr[pos].name).some
  /\ FUNC_TABLE[get_function(rpn_expr[pos].name).v] = arity

\* C26: a unary function met with no value on the stack, and a binary one met
\* with fewer than two, end the evaluation with an arity error: the function is
\* not applied and nothing is popped from a stack that is too short.
C26_ArityChecked ==
  [][/\ (at_function("Unary") /\ Len(stack) < 1) =>
          (pc' = "done" /\ result'.st = "err" /\ result'.msg = "Expected one argument")
     /\ (at_function("Binary") /\ Len(stack) < 2) =>
          (pc' = "done" /\ result'.st = "err" /\ result'.msg = "Expected two arguments")]_vars

\* A binary operator met one value only and the run ended with the arity error.
C26_Witness ==
  /\ pc = "done"
  /\ result.st = "err"
  /\ result.msg = "Expected two arguments"
  /\ pos <= Len(rpn_expr)
  /\ rpn_expr[pos].name \in BinaryNames
  /\ Len(stack) = 1

\* The unary operators, which are the right-associative ones.
UnaryOperators == {"+u", "-u", "!u", "~u"}

\* The for loop of convert_expr_posfix is at a unary operator.
unary_arriving ==
  /\ pc = "convert"
  /\ pos <= Len(expr)
  /\ expr[pos].type = "Operator"
  /\ expr[pos].name \in UnaryOperators

\* C27: binary operators of one precedence level are applied left to right,
\* 1 op1 2 op2 3 going to the postfix output 1 2 op1 3 op2; a unary operator
\* arriving pops nothing from the operator stack, an operator of its own
\* precedence included, and is pushed on top, so -+1 goes to 1 +u -u.
C27_EqualPrecedenceLeftToRight ==
  [][/\ RpnComplete =>
          \A op1 \in BinaryNames, op2 \in BinaryNames :
            (C3_level(op1) = C3_level(op2) /\ program = Infix(op1, op2)) =>
              rpn_names = <<"", "", op1, "", op2>>
     /\ unary_arriving => (op_stack' = Append(op_stack, expr[pos]) /\ rpn_expr' = rpn_expr)
     /\ (RpnComplete /\ program = <<"-", "+", "1">>) => rpn_names = <<"", "+u", "-u">>]_vars

\* 1-2+3 has gone to 1 2 - 3 +.
C27_Witness ==
  /\ RpnComplete
  /\ program = Infix("-", "+")
  /\ rpn_names = <<"", "", "-", "", "+">>

\* The work one line can take at most: a step of parse, then one step of
\* convert_expr_posfix and one of evaluate_expr_postfix for each token and for
\* the return of each.
line_work == 2 * Len(tokens) + 5

\* The work parse can take at most on a program of p bytes, which has at most
\* p tokens on at most p + 1 lines.
parse_work(p) == (p + 1) * (2 * p + 5) + 1

\* A bound on the number of steps the run has left.
steps_left ==
  CASE pc = "tokenize" -> parse_work(Len(program)) + 1 + (Len(program) - i)
    [] pc = "parse" -> (Len(exprs) + 1 - line) * line_work + 1
    [] pc = "convert" ->
         (Len(exprs) - line) * line_work + 1 + (Len(tokens) + 2 - pos) + (Len(tokens) + 2)
    [] pc = "evaluate" -> (Len(exprs) - line) * line_work + 1 + (Len(tokens) + 2 - pos)
    [] OTHER -> 0

\* C28: tokenize and parse terminate. Every iteration of the lexer's loop that
\* does not end the run moves the scan index forward, the for loops of
\* convert_expr_posfix and evaluate_expr_postfix take one token per iteration,
\* parse moves from one line to the next, and every step lowers a bound on the
\* number of steps left that is never negative, so every run ends.
C28_ForwardProgress ==
  [][/\ (pc = "tokenize" /\ pc' = "tokenize") => (i' > i /\ i' <= Len(program))
     /\ (pc = "convert" /\ pc' = "convert") => pos' = pos + 1
     /\ (pc = "evaluate" /\ pc' = "evaluate") => pos' = pos + 1
     /\ (pc = "parse" /\ pc' = "parse") => line' = line + 1
     /\ (pc = "evaluate" /\ pc' = "parse") => line' = line + 1
     /\ steps_left >= 0
     /\ steps_left' >= 0
     /\ steps_left' < steps_left]_vars

\* 1 + 2 * 3 has been scanned to its end, converted and evaluated, and the run
\* is over.
C28_Witness ==
  /\ pc = "done"
  /\ program = <<"1", " ", "+", " ", "2", " ", "*", " ", "3">>
  /\ i = Len(program)
  /\ Len(tokens) = 5
  /\ Len(values) = 1
  /\ result.st = "ok"

\* A token evaluate_expr_postfix can handle: a value, an operator with an entry
\* in FUNC_TABLE, or an identifier that get_function finds.
evaluable(t) ==
  \/ t.type = "Value"
  \/ t.type = "Operator" /\ t.name \in DOMAIN FUNC_TABLE
  \/ t.type = "Identifier" /\ get_function(t.name).some

\* The tokens of the expression e that are not parentheses.
non_parens(e) == {k \in DOMAIN e : e[k].type \notin {"LParen", "RParen"}}

\* C29: when convert_expr_posfix returns Ok, its output holds only values,
\* operators with a registry entry and identifiers of functions, no parenthesis
\* and no line break, and as many tokens as the input has outside parentheses
\* characters; so evaluate_expr_postfix never reaches unreachable!() and never
\* unwraps a None.
C29_PostfixWellFormed ==
  [][/\ (pc = "convert" /\ pc' \in {"evaluate", "parse"}) =>
          /\ \A k \in DOMAIN rpn_expr' : evaluable(rpn_expr'[k])
          /\ Len(rpn_expr') = Cardinality(non_parens(expr))
     /\ (pc = "evaluate" /\ pc' = "done") =>
          result'.msg \notin {"internal error: entered unreachable code",
                              "called Option::unwrap() on a None value"}]_vars

\* 2*sqrt(4) has gone to the output 2 4 sqrt *: a function identifier and an
\* operator, and neither parenthesis.
C29_Witness ==
  /\ RpnComplete
  /\ program = <<"2", "*", "s", "q", "r", "t", "(", "4", ")">>
  /\ Len(expr) = 6
  /\ rpn_names = <<"", "", "sqrt", "*">>
  /\ rpn_expr[3].type = "Identifier"
  /\ rpn_expr[4].type = "Operator"

====
